---- MODULE Spec2Model ----
(***************************************************************************)
(* Read path of the collections-query service: the typed filter compiler   *)
(* (Collection::entries and the apply_*_filter functions), the value       *)
(* materializer (Entry::values) and the collections pagination query       *)
(* (Query::collections), run against a relational store.                   *)
(*                                                                         *)
(* Text is a sequence of one-character strings, so that LIKE patterns can  *)
(* be matched.  Numbers (f64) and timestamps are integers.  A nullable     *)
(* column holds [null |-> BOOLEAN, v |-> payload].  Every table is a       *)
(* sequence of rows in the store's scan order.                             *)
(***************************************************************************)
EXTENDS Integers, Sequences, FiniteSets, TLC

VARIABLES
    entry_text_values,         \* rows [entry_id, field_id, value]
    entry_typst_text_values,   \* rows [entry_id, field_id, raw, rendered]
    entry_boolean_values,      \* rows [entry_id, field_id, value]
    entry_number_values,       \* rows [entry_id, field_id, value]
    entry_date_time_values,    \* rows [entry_id, field_id, value]
    entry_text_list_values,    \* rows [entry_id, field_id, value]
    entry_number_list_values,  \* rows [entry_id, field_id, value]
    entry_relation_values,     \* rows [from_entry_id, field_id, to_entry_id]
    entry_object_values,       \* rows [entry_id, field_id, value]
    phase,                     \* "idle" | "done": a request is being answered
    call,                      \* the operation and arguments of the request
    result,                    \* what the resolver returned
    issued,                    \* the storage round trips the resolver issued
    tasks,                     \* the requests being answered concurrently
    frames                     \* the local variables of their resolvers

tables == << entry_text_values, entry_typst_text_values, entry_boolean_values,
             entry_number_values, entry_date_time_values, entry_text_list_values,
             entry_number_list_values, entry_relation_values, entry_object_values >>

(* the request answered in one step, and the requests answered step by step *)
sequential == << phase, call, result, issued >>
concurrent == << tasks, frames >>

vars == << tables, sequential, concurrent >>

----------------------------------------------------------------------------
(* Bounds of the model *)

NumEntries == 4      \* entries 1..NumEntries-1 are in collection 1, the last in 2
MaxFilters == 2      \* longest filter sequence built from the reduced universe
NumCollections == 3  \* collections 1..NumCollections
NumTasks == 2        \* requests that can be in flight together

----------------------------------------------------------------------------
(* Option<T> *)

None == [some |-> FALSE]
Some(x) == [some |-> TRUE, v |-> x]

(* A nullable column value *)
Null == [null |-> TRUE]
Val(x) == [null |-> FALSE, v |-> x]

Ok(x) == [ok |-> TRUE, v |-> x]
Err(kind, detail) == [ok |-> FALSE, kind |-> kind, detail |-> detail]

Min(a, b) == IF a < b THEN a ELSE b
Max(a, b) == IF a > b THEN a ELSE b

RECURSIVE SelectSeq2(_, _)
(* the subsequence of s at the indices in keep, in order *)
SelectSeq2(s, keep) ==
    IF s = << >> THEN << >>
    ELSE LET n == Len(s)
             rest == SelectSeq2(SubSeq(s, 1, n - 1), keep)
         IN IF n \in keep THEN Append(rest, s[n]) ELSE rest

RECURSIVE Repeat(_, _)
Repeat(x, n) == IF n <= 0 THEN << >> ELSE << x >> \o Repeat(x, n - 1)

RECURSIVE Flatten(_)
Flatten(ss) == IF ss = << >> THEN << >> ELSE Head(ss) \o Flatten(Tail(ss))

RECURSIVE Product(_, _)
(* the product of f[i] over the indices 1..n *)
Product(f, n) == IF n = 0 THEN 1 ELSE f[n] * Product(f, n - 1)

----------------------------------------------------------------------------
(* The schema tables, which this service only reads *)

DataTypes == { "Text", "TypstText", "Boolean", "Number", "DateTime",
               "TextList", "NumberList", "Relation", "Object" }

(* collections, in scan order; name is a sequence of words *)
collections ==
    [ c \in 1..NumCollections |->
        [ id |-> c,
          name |-> IF c % 2 = 1 THEN << "blog", "posts" >> ELSE << "invoices" >>,
          created_at |-> ((c + 1) % 3) + 1,
          created_by |-> 1 ] ]

(* fields, in scan order: collection 1 declares one field of each data type
   and a second Number field; collection 2 declares a Number field that has
   the name of a field of collection 1 *)
fields ==
    << [id |-> 1,  collection_id |-> 1, name |-> "title",  data_type |-> "Text"],
       [id |-> 2,  collection_id |-> 1, name |-> "body",   data_type |-> "TypstText"],
       [id |-> 3,  collection_id |-> 1, name |-> "paid",   data_type |-> "Boolean"],
       [id |-> 4,  collection_id |-> 1, name |-> "amount", data_type |-> "Number"],
       [id |-> 5,  collection_id |-> 2, name |-> "amount", data_type |-> "Number"],
       [id |-> 6,  collection_id |-> 1, name |-> "tax",    data_type |-> "Number"],
       [id |-> 7,  collection_id |-> 1, name |-> "due",    data_type |-> "DateTime"],
       [id |-> 8,  collection_id |-> 1, name |-> "tags",   data_type |-> "TextList"],
       [id |-> 9,  collection_id |-> 1, name |-> "sizes",  data_type |-> "NumberList"],
       [id |-> 10, collection_id |-> 1, name |-> "author", data_type |-> "Relation"],
       [id |-> 11, collection_id |-> 1, name |-> "meta",   data_type |-> "Object"] >>

FieldIds == { fields[i].id : i \in DOMAIN fields }
FieldById(id) == fields[CHOOSE i \in DOMAIN fields : fields[i].id = id]

EntryNames == << "n1", "n2", "n3", "n4", "n5", "n6" >>

(* entries, in scan order; the scan order is not the created_at order, two
   entries of collection 1 share a created_at, and the entry of collection 2
   has the name of an entry of collection 1 *)
entries ==
    [ e \in 1..NumEntries |->
        [ id |-> e,
          collection_id |-> IF e = NumEntries THEN 2 ELSE 1,
          created_at |-> IF e % 2 = 1 THEN 2 ELSE 1,
          created_by |-> 1,
          name |-> IF e = NumEntries THEN "n1" ELSE EntryNames[e] ] ]

EntryIds == 1..NumEntries

----------------------------------------------------------------------------
(* The value store.  Each (entry, field) cell of an entry's own collection
   holds at most one value row, in the table of the field's data type; a
   Relation cell holds any number of edges.  The stores the model starts
   from are a base store with one cell changed. *)

Parity(e) == (e % 2) + 1

TextVals == << << "b" >>, << "a", "b" >> >>
BoolVals == << FALSE, TRUE >>
NumVals == << 2, 1 >>
TimeVals == << 1, 2 >>
TextListVals == << << << "b" >> >>, << << "a", "b" >>, << "z" >> >> >>
NumListVals == << << 2 >>, << 1, 2 >> >>
ObjectVals == << [json |-> "object", members |-> << >>],
                [json |-> "object", members |-> << "k" >>] >>
JsonNull == [json |-> "null", members |-> << >>]
Rendered(raw) == << "<" >> \o raw \o << ">" >>

(* the targets of the edges of entry e: odd entries have two edges, one of
   them into the other collection, even entries have one *)
EdgeTargets(k) == IF k = 2 THEN << 2, NumEntries >> ELSE << 1 >>

Reverse(s) == [ i \in 1..Len(s) |-> s[Len(s) + 1 - i] ]

(* the rows of cell (e, f) under option opt: "base", "absent" (no row),
   "null" (a row with a null payload; for a Relation cell the edges in the
   opposite scan order; for a TypstText cell an empty text) and "alt" (the
   other value) *)
CellRows(e, f, opt) ==
    LET t == FieldById(f).data_type
        k == IF opt = "alt" THEN 3 - Parity(e) ELSE Parity(e)
        row(x) == << [entry_id |-> e, field_id |-> f, value |-> x] >>
        nullable(x) == row(IF opt = "null" THEN Null ELSE Val(x))
    IN  IF opt = "absent" THEN << >>
        ELSE CASE t = "Text" -> nullable(TextVals[k])
               [] t = "TypstText" ->
                    LET raw == IF opt = "null" THEN << >> ELSE TextVals[k]
                    IN << [entry_id |-> e, field_id |-> f,
                           raw |-> raw, rendered |-> Rendered(raw)] >>
               [] t = "Boolean" -> nullable(BoolVals[k])
               [] t = "Number" -> nullable(NumVals[k])
               [] t = "DateTime" -> nullable(TimeVals[k])
               [] t = "TextList" -> nullable(TextListVals[k])
               [] t = "NumberList" -> nullable(NumListVals[k])
               [] t = "Object" ->
                    row(Val(IF opt = "null" THEN JsonNull ELSE ObjectVals[k]))
               [] t = "Relation" ->
                    LET ts == IF opt = "null" THEN Reverse(EdgeTargets(k))
                              ELSE EdgeTargets(k)
                    IN [ i \in 1..Len(ts) |->
                           [from_entry_id |-> e, field_id |-> f,
                            to_entry_id |-> ts[i]] ]

CellOptions == { "absent", "null", "alt" }

(* the cells of the store, in scan order *)
Cells ==
    LET ofEntry(e) ==
            LET mine == { i \in DOMAIN fields :
                            fields[i].collection_id = entries[e].collection_id }
                fs == SelectSeq2(fields, mine)
            IN [ i \in 1..Len(fs) |-> << e, fs[i].id >> ]
    IN Flatten([ e \in 1..NumEntries |-> ofEntry(e) ])

NoEdit == << 0, 0, "base" >>
Edits == { NoEdit } \cup
         { << c[1], c[2], o >> : c \in { Cells[i] : i \in DOMAIN Cells },
                                 o \in CellOptions }

(* the table of data type t in the store with one cell edited *)
TableOf(t, edit) ==
    LET rows(c) == IF FieldById(c[2]).data_type # t THEN << >>
                   ELSE CellRows(c[1], c[2],
                                 IF c[1] = edit[1] /\ c[2] = edit[2]
                                 THEN edit[3] ELSE "base")
    IN Flatten([ i \in DOMAIN Cells |-> rows(Cells[i]) ])

----------------------------------------------------------------------------
(* The filter input types *)

TextComparison == { "Eq", "Neq", "Contains", "StartsWith", "EndsWith" }
NumberComparison == { "Eq", "Neq", "Gt", "Gte", "Lt", "Lte" }
BooleanComparison == { "Eq", "Neq" }
DateTimeComparison == { "Eq", "Neq", "Gt", "Gte", "Lt", "Lte" }
ListComparison == { "Contains", "ContainsAll", "ContainsAny", "IsEmpty", "IsNotEmpty" }
RelationComparison == { "ConnectedTo", "NotConnectedTo", "HasConnections",
                        "HasNoConnections" }
ObjectComparison == { "HasProperty", "PropertyEquals", "PropertyContains",
                      "IsEmpty", "IsNotEmpty" }

(* the seven kinds, in the order apply_typed_filters compiles them *)
Kinds == << "text", "number", "boolean", "date_time", "list", "relation", "object" >>

EntryFilters(text, number, boolean, date_time, list, relation, object) ==
    [ text_filters |-> text, number_filters |-> number,
      boolean_filters |-> boolean, date_time_filters |-> date_time,
      list_filters |-> list, relation_filters |-> relation,
      object_filters |-> object ]

(* the sequence of kind k of an EntryFilters value *)
FiltersOfKind(filters, k) ==
    CASE k = "text" -> filters.text_filters
      [] k = "number" -> filters.number_filters
      [] k = "boolean" -> filters.boolean_filters
      [] k = "date_time" -> filters.date_time_filters
      [] k = "list" -> filters.list_filters
      [] k = "relation" -> filters.relation_filters
      [] k = "object" -> filters.object_filters

(* uuid::Uuid::parse_str on the identifier texts of the model: an entry id has
   a lower-case and an upper-case text, both of which parse to it; "u9" is
   the id of no entry; every other text fails to parse *)
UuidText == [ e \in EntryIds |-> << "u1", "u2", "u3", "u4", "u5", "u6" >>[e] ]
UuidUpper == [ e \in EntryIds |-> << "U1", "U2", "U3", "U4", "U5", "U6" >>[e] ]
UnknownId == NumEntries + 1
(* a variant of ParseUuid that accepts every text: what is not the text of an
   entry id parses to the id of no entry *)
ParseUuid_Lenient(s) ==
    IF \E e \in EntryIds : s = UuidText[e] \/ s = UuidUpper[e]
    THEN Ok(CHOOSE e \in EntryIds : s = UuidText[e] \/ s = UuidUpper[e])
    ELSE Ok(UnknownId)

ParseUuid(s) ==
    IF \E e \in EntryIds : s = UuidText[e] \/ s = UuidUpper[e]
    THEN Ok(CHOOSE e \in EntryIds : s = UuidText[e] \/ s = UuidUpper[e])
    ELSE IF s = "u9" THEN Ok(UnknownId)
    ELSE Err("ParseError", s)

----------------------------------------------------------------------------
(* Select statements on the entries table, as the query builder holds them:
   the inner joins in the order they were added, and the WHERE conditions,
   each on a column of a named table *)

Cond(tbl, col, op, v) == [tbl |-> tbl, col |-> col, op |-> op, v |-> v]

(* a variant of BaseQuery without the collection condition *)
BaseQuery_AllEntries(collection_id) == [ joins |-> << >>, conds |-> << >> ]

(* Entity::find().filter(CollectionId.eq(id)) *)
BaseQuery(collection_id) ==
    [ joins |-> << >>,
      conds |-> << Cond("entries", "collection_id", "eq", collection_id) >> ]

(* a variant of InnerJoin that adds no join: every entry stays in the rows *)
InnerJoin_Dropped(query, tbl) == query

InnerJoin(query, tbl) == [query EXCEPT !.joins = Append(@, tbl)]
(* a variant of Filter that replaces the conditions of the statement by the
   new one *)
Filter_Replace(query, cond) == [query EXCEPT !.conds = << cond >>]

Filter(query, cond) == [query EXCEPT !.conds = Append(@, cond)]

(* EXISTS (SELECT from_entry_id FROM entry_relation_values WHERE
   from_entry_id = entries.id AND field_id = f [AND to_entry_id = t]) *)
(* a variant of ExistsEdge that leaves the target out of the subquery *)
ExistsEdge_AnyTarget(field_id, target) ==
    Cond("entry_relation_values", "subquery", "exists",
         [field_id |-> field_id, target |-> None])

ExistsEdge(field_id, target) ==
    Cond("entry_relation_values", "subquery", "exists",
         [field_id |-> field_id, target |-> target])
(* a variant of NotExistsEdge without the negation *)
NotExistsEdge_NotNegated(field_id, target) ==
    Cond("entry_relation_values", "subquery", "exists",
         [field_id |-> field_id, target |-> target])

NotExistsEdge(field_id, target) ==
    Cond("entry_relation_values", "subquery", "not_exists",
         [field_id |-> field_id, target |-> target])

----------------------------------------------------------------------------
(* Collection::fields: the fields of the collection, in scan order *)
FieldsOf(collection_id) ==
    SelectSeq2(fields, { i \in DOMAIN fields :
                           fields[i].collection_id = collection_id })

(* a variant of validate_field that looks the name up among the fields of
   every collection *)
validate_field_AnyCollection(fs, field_name, expected_types) ==
    LET found == { i \in DOMAIN fields : fields[i].name = field_name }
    IN  IF found = { } THEN Err("FieldNotFound", field_name)
        ELSE LET field == fields[CHOOSE i \in found : \A j \in found : i <= j]
             IN IF field.data_type \notin expected_types
                THEN Err("FieldTypeMismatch", field_name)
                ELSE Ok(field)

validate_field(fs, field_name, expected_types) ==
    LET found == { i \in DOMAIN fs : fs[i].name = field_name }
    IN  IF found = { } THEN Err("FieldNotFound", field_name)
        ELSE LET field == fs[CHOOSE i \in found : \A j \in found : i <= j]
             IN IF field.data_type \notin expected_types
                THEN Err("FieldTypeMismatch", field_name)
                ELSE Ok(field)

TextTypes == { "Text", "TypstText" }
NumberTypes == { "Number" }
BooleanTypes == { "Boolean" }
DateTimeTypes == { "DateTime" }
(* a variant of ListTypes without NumberList *)
ListTypes_TextOnly == { "TextList" }

ListTypes == { "TextList", "NumberList" }
RelationTypes == { "Relation" }
ObjectTypes == { "Object" }

apply_text_filter(query, fs, filter) ==
    LET field == validate_field(fs, filter.field_name, TextTypes)
    IN  IF ~field.ok THEN field
        ELSE LET q == Filter(InnerJoin(query, "entry_text_values"),
                             Cond("entry_text_values", "field_id", "eq", field.v.id))
                 c == filter.comparison
                 value(op, v) == Cond("entry_text_values", "value", op, v)
             IN Ok(Filter(q,
                   CASE c = "Eq" -> value("eq", filter.value)
                     [] c = "Neq" -> value("ne", filter.value)
                     [] c = "Contains" ->
                          value("like", << "%" >> \o filter.value \o << "%" >>)
                     [] c = "StartsWith" ->
                          value("like", filter.value \o << "%" >>)
                     [] c = "EndsWith" ->
                          value("like", << "%" >> \o filter.value)))

(* the six ordering comparisons of number and date-time filters *)
OrderOp(c) ==
    CASE c = "Eq" -> "eq" [] c = "Neq" -> "ne" [] c = "Gt" -> "gt"
      [] c = "Gte" -> "gte" [] c = "Lt" -> "lt" [] c = "Lte" -> "lte"

apply_number_filter(query, fs, filter) ==
    LET field == validate_field(fs, filter.field_name, NumberTypes)
    IN  IF ~field.ok THEN field
        ELSE LET q == Filter(InnerJoin(query, "entry_number_values"),
                             Cond("entry_number_values", "field_id", "eq", field.v.id))
             IN Ok(Filter(q, Cond("entry_number_values", "value",
                                  OrderOp(filter.comparison), filter.value)))

apply_boolean_filter(query, fs, filter) ==
    LET field == validate_field(fs, filter.field_name, BooleanTypes)
    IN  IF ~field.ok THEN field
        ELSE LET q == Filter(InnerJoin(query, "entry_boolean_values"),
                             Cond("entry_boolean_values", "field_id", "eq", field.v.id))
             IN Ok(Filter(q, Cond("entry_boolean_values", "value",
                                  IF filter.comparison = "Eq" THEN "eq" ELSE "ne",
                                  filter.value)))

apply_datetime_filter(query, fs, filter) ==
    LET field == validate_field(fs, filter.field_name, DateTimeTypes)
    IN  IF ~field.ok THEN field
        ELSE LET q == Filter(InnerJoin(query, "entry_date_time_values"),
                             Cond("entry_date_time_values", "field_id", "eq", field.v.id))
             IN Ok(Filter(q, Cond("entry_date_time_values", "value",
                                  OrderOp(filter.comparison), filter.value)))

(* a variant of First that takes the last element *)
First_Last(values) ==
    IF values = << >> THEN None ELSE Some(values[Len(values)])

(* values.first() *)
First(values) == IF values = << >> THEN None ELSE Some(Head(values))

(* a variant of apply_list_filter in which Contains on a NumberList field
   compiles, to the join with the field's rows *)
apply_list_filter_NumberContains(query, fs, filter) ==
    LET field == validate_field(fs, filter.field_name, ListTypes)
        c == filter.comparison
    IN  IF ~field.ok THEN field
        ELSE IF field.v.data_type = "TextList"
        THEN LET q == Filter(InnerJoin(query, "entry_text_list_values"),
                             Cond("entry_text_list_values", "field_id", "eq", field.v.id))
             IN CASE c = "Contains" ->
                       IF filter.values.some /\ First(filter.values.v).some
                       THEN Ok(Filter(q, Cond("entry_text_list_values", "value", "like",
                                    << "%" >> \o First(filter.values.v).v \o << "%" >>)))
                       ELSE Ok(q)
                  [] c = "IsEmpty" ->
                       Ok(Filter(q, Cond("entry_text_list_values", "value", "is_null", 0)))
                  [] c = "IsNotEmpty" ->
                       Ok(Filter(q, Cond("entry_text_list_values", "value", "is_not_null", 0)))
                  [] OTHER -> Err("UnsupportedComparison", filter.field_name)
        ELSE LET q == Filter(InnerJoin(query, "entry_number_list_values"),
                             Cond("entry_number_list_values", "field_id", "eq", field.v.id))
             IN CASE c = "Contains" -> Ok(q)
                  [] c = "IsEmpty" ->
                       Ok(Filter(q, Cond("entry_number_list_values", "value", "is_null", 0)))
                  [] c = "IsNotEmpty" ->
                       Ok(Filter(q, Cond("entry_number_list_values", "value", "is_not_null", 0)))
                  [] OTHER -> Err("UnsupportedComparison", filter.field_name)

apply_list_filter(query, fs, filter) ==
    LET field == validate_field(fs, filter.field_name, ListTypes)
        c == filter.comparison
    IN  IF ~field.ok THEN field
        ELSE IF field.v.data_type = "TextList"
        THEN LET q == Filter(InnerJoin(query, "entry_text_list_values"),
                             Cond("entry_text_list_values", "field_id", "eq", field.v.id))
             IN CASE c = "Contains" ->
                       IF filter.values.some /\ First(filter.values.v).some
                       THEN Ok(Filter(q, Cond("entry_text_list_values", "value", "like",
                                    << "%" >> \o First(filter.values.v).v \o << "%" >>)))
                       ELSE Ok(q)
                  [] c = "IsEmpty" ->
                       Ok(Filter(q, Cond("entry_text_list_values", "value", "is_null", 0)))
                  [] c = "IsNotEmpty" ->
                       Ok(Filter(q, Cond("entry_text_list_values", "value", "is_not_null", 0)))
                  [] OTHER -> Err("UnsupportedComparison", filter.field_name)
        ELSE LET q == Filter(InnerJoin(query, "entry_number_list_values"),
                             Cond("entry_number_list_values", "field_id", "eq", field.v.id))
             IN CASE c = "IsEmpty" ->
                       Ok(Filter(q, Cond("entry_number_list_values", "value", "is_null", 0)))
                  [] c = "IsNotEmpty" ->
                       Ok(Filter(q, Cond("entry_number_list_values", "value", "is_not_null", 0)))
                  [] OTHER -> Err("UnsupportedComparison", filter.field_name)

(* a variant of apply_relation_filter that looks at the target of ConnectedTo
   and NotConnectedTo before it validates the field *)
apply_relation_filter_OperandFirst(query, fs, filter) ==
    LET field == validate_field(fs, filter.field_name, RelationTypes)
        c == filter.comparison
        target == IF filter.target_entry_id.some
                  THEN ParseUuid(filter.target_entry_id.v)
                  ELSE Err("None", "")
    IN  IF c \in { "ConnectedTo", "NotConnectedTo" } /\ ~filter.target_entry_id.some
        THEN Err("MissingRequiredOperand", filter.field_name)
        ELSE IF c \in { "ConnectedTo", "NotConnectedTo" } /\ ~target.ok
        THEN Err("InvalidOperand", filter.field_name)
        ELSE IF ~field.ok THEN field
        ELSE CASE c = "ConnectedTo" ->
                    Ok(Filter(query, ExistsEdge(field.v.id, Some(target.v))))
               [] c = "NotConnectedTo" ->
                    Ok(Filter(query, NotExistsEdge(field.v.id, Some(target.v))))
               [] c = "HasConnections" ->
                    Ok(Filter(query, ExistsEdge(field.v.id, None)))
               [] c = "HasNoConnections" ->
                    Ok(Filter(query, NotExistsEdge(field.v.id, None)))

apply_relation_filter(query, fs, filter) ==
    LET field == validate_field(fs, filter.field_name, RelationTypes)
        c == filter.comparison
        target == IF filter.target_entry_id.some
                  THEN ParseUuid(filter.target_entry_id.v)
                  ELSE Err("None", "")
    IN  IF ~field.ok THEN field
        ELSE CASE c \in { "ConnectedTo", "NotConnectedTo" } ->
                    IF ~filter.target_entry_id.some
                    THEN Err("MissingRequiredOperand", filter.field_name)
                    ELSE IF ~target.ok
                    THEN Err("InvalidOperand", filter.field_name)
                    ELSE IF c = "ConnectedTo"
                    THEN Ok(Filter(query, ExistsEdge(field.v.id, Some(target.v))))
                    ELSE Ok(Filter(query, NotExistsEdge(field.v.id, Some(target.v))))
               [] c = "HasConnections" ->
                    Ok(Filter(query, ExistsEdge(field.v.id, None)))
               [] c = "HasNoConnections" ->
                    Ok(Filter(query, NotExistsEdge(field.v.id, None)))

(* a variant of apply_object_filter in which HasProperty with a property_path
   compiles, to the join with the field's rows *)
apply_object_filter_HasPropertyJoinOnly(query, fs, filter) ==
    LET field == validate_field(fs, filter.field_name, ObjectTypes)
        c == filter.comparison
    IN  IF ~field.ok THEN field
        ELSE LET q == Filter(InnerJoin(query, "entry_object_values"),
                             Cond("entry_object_values", "field_id", "eq", field.v.id))
             IN CASE c = "HasProperty" ->
                       IF filter.property_path.some
                       THEN Ok(q)
                       ELSE Err("MissingRequiredOperand", filter.field_name)
                  [] c \in { "PropertyEquals", "PropertyContains" } ->
                       Err("UnsupportedComparison", filter.field_name)
                  [] c = "IsEmpty" ->
                       Ok(Filter(q, Cond("entry_object_values", "value", "is_null", 0)))
                  [] c = "IsNotEmpty" ->
                       Ok(Filter(q, Cond("entry_object_values", "value", "is_not_null", 0)))

(* a variant of apply_object_filter in which each of the three property
   comparisons first requires a property_path *)
apply_object_filter_PathRequired(query, fs, filter) ==
    LET field == validate_field(fs, filter.field_name, ObjectTypes)
        c == filter.comparison
    IN  IF ~field.ok THEN field
        ELSE LET q == Filter(InnerJoin(query, "entry_object_values"),
                             Cond("entry_object_values", "field_id", "eq", field.v.id))
             IN CASE c \in { "HasProperty", "PropertyEquals", "PropertyContains" } ->
                       IF filter.property_path.some
                       THEN Err("UnsupportedComparison", filter.field_name)
                       ELSE Err("MissingRequiredOperand", filter.field_name)
                  [] c = "IsEmpty" ->
                       Ok(Filter(q, Cond("entry_object_values", "value", "is_null", 0)))
                  [] c = "IsNotEmpty" ->
                       Ok(Filter(q, Cond("entry_object_values", "value", "is_not_null", 0)))

apply_object_filter(query, fs, filter) ==
    LET field == validate_field(fs, filter.field_name, ObjectTypes)
        c == filter.comparison
    IN  IF ~field.ok THEN field
        ELSE LET q == Filter(InnerJoin(query, "entry_object_values"),
                             Cond("entry_object_values", "field_id", "eq", field.v.id))
             IN CASE c = "HasProperty" ->
                       IF filter.property_path.some
                       THEN Err("UnsupportedComparison", filter.field_name)
                       ELSE Err("MissingRequiredOperand", filter.field_name)
                  [] c \in { "PropertyEquals", "PropertyContains" } ->
                       Err("UnsupportedComparison", filter.field_name)
                  [] c = "IsEmpty" ->
                       Ok(Filter(q, Cond("entry_object_values", "value", "is_null", 0)))
                  [] c = "IsNotEmpty" ->
                       Ok(Filter(q, Cond("entry_object_values", "value", "is_not_null", 0)))

(* the apply_*_filter function of a kind *)
ApplyFilter(kind, query, fs, filter) ==
    CASE kind = "text" -> apply_text_filter(query, fs, filter)
      [] kind = "number" -> apply_number_filter(query, fs, filter)
      [] kind = "boolean" -> apply_boolean_filter(query, fs, filter)
      [] kind = "date_time" -> apply_datetime_filter(query, fs, filter)
      [] kind = "list" -> apply_list_filter(query, fs, filter)
      [] kind = "relation" -> apply_relation_filter(query, fs, filter)
      [] kind = "object" -> apply_object_filter(query, fs, filter)

RECURSIVE ApplySeq_SkipFailed(_, _, _, _)
(* a variant of ApplySeq that drops a filter that fails and goes on *)
ApplySeq_SkipFailed(kind, query, fs, seq) ==
    IF seq = << >> THEN Ok(query)
    ELSE LET r == ApplyFilter(kind, query, fs, Head(seq))
         IN ApplySeq_SkipFailed(kind, IF r.ok THEN r.v ELSE query, fs, Tail(seq))

RECURSIVE ApplySeq(_, _, _, _)
(* for filter in seq { query = apply(query, fields, filter)?; } *)
ApplySeq(kind, query, fs, seq) ==
    IF seq = << >> THEN Ok(query)
    ELSE LET r == ApplyFilter(kind, query, fs, Head(seq))
         IN IF ~r.ok THEN r ELSE ApplySeq(kind, r.v, fs, Tail(seq))

RECURSIVE ApplyKinds_KeepGoing(_, _, _, _)
(* a variant of ApplyKinds that compiles the kinds after a failing one as
   well and returns the last error *)
ApplyKinds_KeepGoing(k, query, fs, filters) ==
    IF k > Len(Kinds) THEN Ok(query)
    ELSE LET opt == FiltersOfKind(filters, Kinds[k])
             r == IF opt.some THEN ApplySeq(Kinds[k], query, fs, opt.v)
                  ELSE Ok(query)
             rest == ApplyKinds_KeepGoing(k + 1, IF r.ok THEN r.v ELSE query,
                                          fs, filters)
         IN IF ~rest.ok THEN rest ELSE r

RECURSIVE ApplyKinds(_, _, _, _)
(* the kinds k..7 of the filter set, in order; stops at the first error *)
ApplyKinds(k, query, fs, filters) ==
    IF k > Len(Kinds) THEN Ok(query)
    ELSE LET opt == FiltersOfKind(filters, Kinds[k])
             r == IF opt.some THEN ApplySeq(Kinds[k], query, fs, opt.v)
                  ELSE Ok(query)
         IN IF ~r.ok THEN r ELSE ApplyKinds(k + 1, r.v, fs, filters)

apply_typed_filters(query, fs, filters) == ApplyKinds(1, query, fs, filters)

----------------------------------------------------------------------------
(* The store's evaluation of a select statement (PostgreSQL) *)

TableRows(tbl) ==
    CASE tbl = "entry_text_values" -> entry_text_values
      [] tbl = "entry_typst_text_values" -> entry_typst_text_values
      [] tbl = "entry_boolean_values" -> entry_boolean_values
      [] tbl = "entry_number_values" -> entry_number_values
      [] tbl = "entry_date_time_values" -> entry_date_time_values
      [] tbl = "entry_text_list_values" -> entry_text_list_values
      [] tbl = "entry_number_list_values" -> entry_number_list_values
      [] tbl = "entry_relation_values" -> entry_relation_values
      [] tbl = "entry_object_values" -> entry_object_values

RECURSIVE Like(_, _)
(* s LIKE p: % matches any run of characters, _ any one character *)
Like(s, p) ==
    IF p = << >> THEN s = << >>
    ELSE IF Head(p) = "%"
         THEN Like(s, Tail(p)) \/ (s # << >> /\ Like(Tail(s), p))
    ELSE /\ s # << >>
         /\ (Head(p) = "_" \/ Head(p) = Head(s))
         /\ Like(Tail(s), Tail(p))

RECURSIVE JoinWith(_, _)
JoinWith(ss, sep) ==
    IF ss = << >> THEN << >>
    ELSE IF Len(ss) = 1 THEN Head(ss)
    ELSE Head(ss) \o sep \o JoinWith(Tail(ss), sep)

(* the text form of a text[] value, which a pattern is matched against *)
ArrayText(list) == << "{" >> \o JoinWith(list, << "," >>) \o << "}" >>

(* a WHERE condition on a column of a joined row is satisfied only when it
   evaluates to TRUE: a comparison with a NULL value is not *)
RowSatisfies(cond, row) ==
    IF cond.col = "field_id" THEN row.field_id = cond.v
    ELSE IF cond.op = "is_null" THEN row.value.null
    ELSE IF cond.op = "is_not_null" THEN ~row.value.null
    ELSE /\ ~row.value.null
         /\ LET x == row.value.v
            IN CASE cond.op = "eq" -> x = cond.v
                 [] cond.op = "ne" -> x # cond.v
                 [] cond.op = "gt" -> x > cond.v
                 [] cond.op = "gte" -> x >= cond.v
                 [] cond.op = "lt" -> x < cond.v
                 [] cond.op = "lte" -> x <= cond.v
                 [] cond.op = "like" ->
                      IF cond.tbl = "entry_text_list_values"
                      THEN Like(ArrayText(x), cond.v)
                      ELSE Like(x, cond.v)

(* a condition on the entries row itself: a column of entries, or a
   correlated subquery on the edges of the entry *)
EntrySatisfies(cond, e) ==
    IF cond.tbl = "entries"
    THEN CASE cond.col = "collection_id" -> e.collection_id = cond.v
           [] cond.col = "name" -> e.name = cond.v
    ELSE LET found == \E i \in DOMAIN entry_relation_values :
                         LET r == entry_relation_values[i]
                         IN /\ r.from_entry_id = e.id
                            /\ r.field_id = cond.v.field_id
                            /\ (cond.v.target.some =>
                                  r.to_entry_id = cond.v.target.v)
         IN IF cond.op = "exists" THEN found ELSE ~found

OnEntry(cond) == cond.tbl = "entries" \/ cond.col = "subquery"

(* the rows of joined table tbl that join entry e (ON entry_id = entries.id)
   and satisfy every condition on a column of tbl *)
JoinedRows(query, tbl, e) ==
    { i \in DOMAIN TableRows(tbl) :
        /\ TableRows(tbl)[i].entry_id = e.id
        /\ \A j \in DOMAIN query.conds :
              (~OnEntry(query.conds[j]) /\ query.conds[j].tbl = tbl)
                 => RowSatisfies(query.conds[j], TableRows(tbl)[i]) }

(* how many rows of the join carry entry e *)
Multiplicity(query, e) ==
    IF \E j \in DOMAIN query.conds :
          OnEntry(query.conds[j]) /\ ~EntrySatisfies(query.conds[j], e)
    THEN 0
    ELSE Product([ k \in DOMAIN query.joins |->
                     Cardinality(JoinedRows(query, query.joins[k], e)) ],
                 Len(query.joins))

(* a table joined twice under one name is rejected by the store *)
Ambiguous(query) ==
    \E i, j \in DOMAIN query.joins : i < j /\ query.joins[i] = query.joins[j]

RECURSIVE InsertBy(_, _, _)
(* insert x after the rows that sort before it or tie with it *)
InsertBy(sorted, x, order) ==
    IF sorted = << >> THEN << x >>
    ELSE LET h == Head(sorted)
             before == IF order = "Asc" THEN h.created_at <= x.created_at
                       ELSE h.created_at >= x.created_at
         IN IF before THEN << h >> \o InsertBy(Tail(sorted), x, order)
            ELSE << x >> \o sorted

RECURSIVE OrderBy(_, _)
(* ORDER BY created_at; rows that tie stay in scan order *)
OrderBy(rows, order) ==
    IF rows = << >> THEN << >>
    ELSE InsertBy(OrderBy(SubSeq(rows, 1, Len(rows) - 1), order),
                  rows[Len(rows)], order)

(* base_query.order_by(CreatedAt, order).all(db) *)
SelectAll(query, order) ==
    IF Ambiguous(query) THEN Err("StoreError", "table name specified more than once")
    ELSE Ok(OrderBy(Flatten([ e \in DOMAIN entries |->
                                Repeat(entries[e], Multiplicity(query, entries[e])) ]),
                    order))

----------------------------------------------------------------------------
(* Collection::entries *)

EntriesResult(collection_id, filters, order_by) ==
    LET order == IF order_by.some THEN order_by.v ELSE "Asc"
        fs == FieldsOf(collection_id)
        base_query == BaseQuery(collection_id)
        compiled == IF filters.some
                    THEN apply_typed_filters(base_query, fs, filters.v)
                    ELSE Ok(base_query)
    IN  IF ~compiled.ok
        THEN [result |-> compiled, issued |-> << "fields" >>]
        ELSE [result |-> SelectAll(compiled.v, order),
              issued |-> << "fields", "entries" >>]

ListEntries(collection_id, filters, order_by) ==
    /\ phase = "idle"
    /\ phase' = "done"
    /\ call' = [op |-> "list_entries", collection_id |-> collection_id,
                filters |-> filters, order_by |-> order_by]
    /\ LET r == EntriesResult(collection_id, filters, order_by)
       IN result' = r.result /\ issued' = r.issued
    /\ UNCHANGED << tables, concurrent >>

----------------------------------------------------------------------------
(* The requests of the model *)

FieldNames == { fields[i].name : i \in DOMAIN fields } \cup { "nope" }

TextLiterals == { << "b" >>, << "a" >> }
NumberLiterals == { 1, 2 }
TimeLiterals == { 1, 2 }
ListOperands == { None, Some(<< >>), Some(<< << "b" >> >>),
                  Some(<< << "b" >>, << "q" >> >>) }
TargetOperands == { None, Some("u1"), Some("U2"), Some("u9"), Some("not-a-uuid") }
PathOperands == { None, Some("k") }

(* the names of the fields whose data type is in types *)
NamesOfType(types) ==
    { fields[i].name : i \in { j \in DOMAIN fields : fields[j].data_type \in types } }

(* the single filters of a kind: every comparison on every field name, and
   on the fields of a fitting type with every operand as well *)
FiltersOf(kind) ==
    CASE kind = "text" ->
           { [field_name |-> n, comparison |-> c, value |-> v] :
               n \in FieldNames, c \in TextComparison, v \in { << "b" >> } }
           \cup
           { [field_name |-> n, comparison |-> c, value |-> v] :
               n \in NamesOfType(TextTypes), c \in TextComparison, v \in TextLiterals }
      [] kind = "number" ->
           { [field_name |-> n, comparison |-> c, value |-> v] :
               n \in FieldNames, c \in NumberComparison, v \in { 1 } }
           \cup
           { [field_name |-> n, comparison |-> c, value |-> v] :
               n \in NamesOfType(NumberTypes), c \in NumberComparison,
               v \in NumberLiterals }
      [] kind = "boolean" ->
           { [field_name |-> n, comparison |-> c, value |-> v] :
               n \in FieldNames, c \in BooleanComparison, v \in { TRUE } }
           \cup
           { [field_name |-> n, comparison |-> c, value |-> v] :
               n \in NamesOfType(BooleanTypes), c \in BooleanComparison,
               v \in BOOLEAN }
      [] kind = "date_time" ->
           { [field_name |-> n, comparison |-> c, value |-> v] :
               n \in FieldNames, c \in DateTimeComparison, v \in { 1 } }
           \cup
           { [field_name |-> n, comparison |-> c, value |-> v] :
               n \in NamesOfType(DateTimeTypes), c \in DateTimeComparison,
               v \in TimeLiterals }
      [] kind = "list" ->
           { [field_name |-> n, comparison |-> c, values |-> v] :
               n \in FieldNames, c \in ListComparison, v \in { Some(<< << "b" >> >>) } }
           \cup
           { [field_name |-> n, comparison |-> c, values |-> v] :
               n \in NamesOfType(ListTypes), c \in ListComparison, v \in ListOperands }
      [] kind = "relation" ->
           { [field_name |-> n, comparison |-> c, target_entry_id |-> v] :
               n \in FieldNames, c \in RelationComparison, v \in { Some("u1") } }
           \cup
           { [field_name |-> n, comparison |-> c, target_entry_id |-> v] :
               n \in NamesOfType(RelationTypes), c \in RelationComparison,
               v \in TargetOperands }
      [] kind = "object" ->
           { [field_name |-> n, comparison |-> c, property_path |-> v,
              property_value |-> None] :
               n \in FieldNames, c \in ObjectComparison, v \in { Some("k") } }
           \cup
           { [field_name |-> n, comparison |-> c, property_path |-> v,
              property_value |-> None] :
               n \in NamesOfType(ObjectTypes), c \in ObjectComparison,
               v \in PathOperands }

Tagged(kind, set) == { << kind, f >> : f \in set }

SingleFilters ==
    UNION { Tagged(Kinds[k], FiltersOf(Kinds[k])) : k \in DOMAIN Kinds }

(* the filters that longer filter sequences are built from *)
ShortList ==
    Tagged("text",
        { [field_name |-> "title", comparison |-> "Eq", value |-> << "b" >>],
          [field_name |-> "nope", comparison |-> "Eq", value |-> << "a" >>] })
    \cup Tagged("number",
        { [field_name |-> "amount", comparison |-> "Gte", value |-> 1],
          [field_name |-> "tax", comparison |-> "Gte", value |-> 1],
          [field_name |-> "title", comparison |-> "Eq", value |-> 1] })
    \cup Tagged("boolean",
        { [field_name |-> "paid", comparison |-> "Neq", value |-> TRUE] })
    \cup Tagged("list",
        { [field_name |-> "sizes", comparison |-> "ContainsAll",
           values |-> Some(<< << "b" >> >>)] })
    \cup Tagged("relation",
        { [field_name |-> "author", comparison |-> "NotConnectedTo",
           target_entry_id |-> Some("u2")],
          [field_name |-> "author", comparison |-> "ConnectedTo",
           target_entry_id |-> Some("not-a-uuid")] })
    \cup Tagged("object",
        { [field_name |-> "nope", comparison |-> "IsEmpty",
           property_path |-> None, property_value |-> None] })

(* one filter of each of the seven kinds, on seven different fields *)
OneOfEachKind ==
    << << "text", [field_name |-> "title", comparison |-> "Contains",
                   value |-> << "b" >>] >>,
       << "number", [field_name |-> "amount", comparison |-> "Gte", value |-> 1] >>,
       << "boolean", [field_name |-> "paid", comparison |-> "Neq", value |-> FALSE] >>,
       << "date_time", [field_name |-> "due", comparison |-> "Lte", value |-> 2] >>,
       << "list", [field_name |-> "tags", comparison |-> "IsNotEmpty",
                   values |-> None] >>,
       << "relation", [field_name |-> "author", comparison |-> "HasConnections",
                       target_entry_id |-> None] >>,
       << "object", [field_name |-> "meta", comparison |-> "IsNotEmpty",
                     property_path |-> None, property_value |-> None] >> >>

RECURSIVE OfKind(_, _)
(* the filters of kind kind in a sequence of tagged filters, in order *)
OfKind(seq, kind) ==
    IF seq = << >> THEN << >>
    ELSE IF Head(seq)[1] = kind THEN << Head(seq)[2] >> \o OfKind(Tail(seq), kind)
    ELSE OfKind(Tail(seq), kind)

(* the EntryFilters value that holds the tagged filters of seq: the sequence
   of a kind without filters is absent *)
Bucket(seq) ==
    LET opt(kind) == IF OfKind(seq, kind) = << >> THEN None
                     ELSE Some(OfKind(seq, kind))
    IN EntryFilters(opt("text"), opt("number"), opt("boolean"), opt("date_time"),
                    opt("list"), opt("relation"), opt("object"))

NoFilters == EntryFilters(None, None, None, None, None, None, None)
EmptyFilters == EntryFilters(Some(<< >>), Some(<< >>), Some(<< >>), Some(<< >>),
                             Some(<< >>), Some(<< >>), Some(<< >>))

RECURSIVE SeqsOf(_, _)
(* the sequences of length n over set *)
SeqsOf(set, n) ==
    IF n = 0 THEN { << >> }
    ELSE { << x >> \o s : x \in set, s \in SeqsOf(set, n - 1) }

CollectionIds == 1..NumCollections
OrderBys == { None, Some("Asc"), Some("Desc") }

(* pairs of filters of one kind that fail with different errors, in both
   orders *)
OrderProbes ==
    LET mismatch == << "number", [field_name |-> "title", comparison |-> "Eq",
                                  value |-> 1] >>
        missing == << "number", [field_name |-> "nope", comparison |-> "Eq",
                                 value |-> 1] >>
        invalid == << "relation", [field_name |-> "author",
                                   comparison |-> "ConnectedTo",
                                   target_entry_id |-> Some("not-a-uuid")] >>
        lacking == << "relation", [field_name |-> "author",
                                   comparison |-> "NotConnectedTo",
                                   target_entry_id |-> None] >>
    IN { << mismatch, missing >>, << missing, mismatch >>,
         << invalid, lacking >>, << lacking, invalid >> }

(* relation and object filters with a missing or malformed operand, on a
   field of no collection and on a field of another data type *)
OperandProbes ==
    { << "relation", [field_name |-> n, comparison |-> c, target_entry_id |-> v] >> :
        n \in { "nope", "title" }, c \in { "ConnectedTo", "NotConnectedTo" },
        v \in { None, Some("not-a-uuid") } }
    \cup
    { << "object", [field_name |-> n, comparison |-> c, property_path |-> None,
                    property_value |-> None] >> :
        n \in { "nope", "title" },
        c \in { "HasProperty", "PropertyEquals", "PropertyContains" } }

(* the list_entries requests: without filters on every collection in every
   order; with each single filter on collection 1 and each short-listed one
   on collection 2; with every sequence of 2..MaxFilters short-listed filters
   on collection 1; with one filter of each kind; and with the pairs of
   failing filters of one kind and the filters with a bad operand *)
ListEntriesCalls ==
    { << c, f, o >> : c \in CollectionIds,
                      f \in { None, Some(NoFilters), Some(EmptyFilters) },
                      o \in OrderBys }
    \cup { << 1, Some(Bucket(<< t >>)), None >> : t \in SingleFilters }
    \cup { << 2, Some(Bucket(<< t >>)), None >> : t \in ShortList }
    \cup { << 1, Some(Bucket(s)), Some("Desc") >> :
             s \in UNION { SeqsOf(ShortList, n) : n \in 2..MaxFilters } }
    \cup { << 1, Some(Bucket(OneOfEachKind)), Some("Asc") >> }
    \cup { << 1, Some(Bucket(s)), Some("Asc") >> : s \in OrderProbes }
    \cup { << 1, Some(Bucket(<< t >>)), None >> : t \in OperandProbes }

----------------------------------------------------------------------------
(* ValueType::from_data_type and Entry::values *)

TableOfType(data_type) ==
    CASE data_type = "Text" -> "entry_text_values"
      [] data_type = "TypstText" -> "entry_typst_text_values"
      [] data_type = "Boolean" -> "entry_boolean_values"
      [] data_type = "Number" -> "entry_number_values"
      [] data_type = "Relation" -> "entry_relation_values"
      [] data_type = "DateTime" -> "entry_date_time_values"
      [] data_type = "TextList" -> "entry_text_list_values"
      [] data_type = "NumberList" -> "entry_number_list_values"
      [] data_type = "Object" -> "entry_object_values"

(* .one(db): the first row in scan order, if any, among those of rows whose
   index is in matching *)
One(rows, matching) ==
    IF matching = { } THEN None
    ELSE Some(rows[CHOOSE i \in matching : \A j \in matching : i <= j])

(* serde_json::Value::to_string *)
JsonToString(j) ==
    IF j.json = "null" THEN "null"
    ELSE IF j.members = << >> THEN "{}" ELSE "{\"k\":1}"

from_data_type(data_type, entry_id, field_id) ==
    LET rows == TableRows(TableOfType(data_type))
        v == IF data_type = "Relation"
             THEN One(rows, { i \in DOMAIN rows :
                                /\ rows[i].from_entry_id = entry_id
                                /\ rows[i].field_id = field_id })
             ELSE One(rows, { i \in DOMAIN rows :
                                /\ rows[i].entry_id = entry_id
                                /\ rows[i].field_id = field_id })
    IN  IF ~v.some THEN None
        ELSE CASE data_type \in { "Text", "Boolean", "Number", "DateTime" } ->
                    Some([tag |-> data_type, value |-> v.v.value])
               [] data_type = "TypstText" ->
                    Some([tag |-> data_type, raw |-> v.v.raw,
                          rendered |-> v.v.rendered])
               [] data_type = "Relation" ->
                    Some([tag |-> data_type, from_entry_id |-> v.v.from_entry_id,
                          to_entry_id |-> v.v.to_entry_id])
               [] data_type \in { "TextList", "NumberList" } ->
                    Some([tag |-> data_type,
                          value |-> IF v.v.value.null THEN << >> ELSE v.v.value.v])
               [] data_type = "Object" ->
                    Some([tag |-> data_type, value |-> JsonToString(v.v.value.v)])

RECURSIVE CollectValues_Dense(_, _)
(* a variant of CollectValues that pushes a null value for a field without a
   row *)
CollectValues_Dense(entry, fs) ==
    IF fs = << >> THEN << >>
    ELSE LET field == Head(fs)
             v == from_data_type(field.data_type, entry.id, field.id)
         IN << [field |-> field,
                value |-> IF v.some THEN v.v ELSE [tag |-> "Null"]] >>
            \o CollectValues_Dense(entry, Tail(fs))

RECURSIVE CollectValues_PerEdge(_, _)
(* a variant of CollectValues that pushes a pair for every edge of a Relation
   field *)
CollectValues_PerEdge(entry, fs) ==
    IF fs = << >> THEN << >>
    ELSE LET field == Head(fs)
             v == from_data_type(field.data_type, entry.id, field.id)
             edges == SelectSeq2(entry_relation_values,
                         { i \in DOMAIN entry_relation_values :
                             /\ entry_relation_values[i].from_entry_id = entry.id
                             /\ entry_relation_values[i].field_id = field.id })
             pairs == IF field.data_type = "Relation"
                      THEN [ i \in 1..Len(edges) |->
                               [field |-> field,
                                value |-> [tag |-> "Relation",
                                           from_entry_id |-> edges[i].from_entry_id,
                                           to_entry_id |-> edges[i].to_entry_id]] ]
                      ELSE IF v.some THEN << [field |-> field, value |-> v.v] >>
                      ELSE << >>
         IN pairs \o CollectValues_PerEdge(entry, Tail(fs))

RECURSIVE CollectValues(_, _)
(* for field in fields { if let Some(v) = from_data_type(..) { values.push } } *)
CollectValues(entry, fs) ==
    IF fs = << >> THEN << >>
    ELSE LET field == Head(fs)
             v == from_data_type(field.data_type, entry.id, field.id)
         IN (IF v.some THEN << [field |-> field, value |-> v.v] >> ELSE << >>)
            \o CollectValues(entry, Tail(fs))

ValuesResult(entry) ==
    LET fs == FieldsOf(entry.collection_id)
    IN [ result |-> Ok(CollectValues(entry, fs)),
         issued |-> << "fields" >> \o [ i \in 1..Len(fs) |-> "value" ] ]

Materialize(entry) ==
    /\ phase = "idle"
    /\ phase' = "done"
    /\ call' = [op |-> "materialize", entry |-> entry]
    /\ LET r == ValuesResult(entry)
       IN result' = r.result /\ issued' = r.issued
    /\ UNCHANGED << tables, concurrent >>

----------------------------------------------------------------------------
(* Query::collections *)

DefaultPage == 1
MinPage == 1
DefaultPageSize == 10
MinPageSize == 1
MaxPageSize == 100

(* i32 arguments; every count and offset of the model is below 2^31, where
   the casts between i32 and u64 keep the value, and a negative i32 cast to
   u64 is a number above every count *)
MaxI32 == 2147483646 + 1
MinI32 == -MaxI32 - 1
AsU64(x) == IF x < 0 THEN MaxI32 ELSE x

(* the english stem of a word *)
Stem(word) ==
    CASE word = "posts" -> "post"
      [] word = "invoices" -> "invoic"
      [] OTHER -> word

(* to_tsvector('english', name) @@ to_tsquery('english', q), for a query of
   one word; a query of several words without an operator is a syntax error *)
TsQueryOk(q) == Len(q) = 1
TsMatch(name, q) == \E i \in DOMAIN name : Stem(name[i]) = Stem(q[1])

(* a variant of FilteredCollections whose created_after bound is exclusive *)
FilteredCollections_Exclusive(collection_name, created_after, created_before) ==
    SelectSeq2(collections,
        { i \in DOMAIN collections :
            /\ collection_name.some => TsMatch(collections[i].name, collection_name.v)
            /\ created_after.some => collections[i].created_at > created_after.v
            /\ created_before.some => collections[i].created_at <= created_before.v })

(* the collections that pass the filters of the query, in scan order *)
FilteredCollections(collection_name, created_after, created_before) ==
    SelectSeq2(collections,
        { i \in DOMAIN collections :
            /\ collection_name.some => TsMatch(collections[i].name, collection_name.v)
            /\ created_after.some => collections[i].created_at >= created_after.v
            /\ created_before.some => collections[i].created_at <= created_before.v })

(* Paginator::fetch_page: LIMIT page_size OFFSET page_size * page; with
   page_size >= 1 a page number of Len(rows) or more is past the last row *)
FetchPage(rows, page_size, page) ==
    IF page >= Len(rows) THEN << >>
    ELSE SubSeq(rows, page_size * page + 1,
                Min(Len(rows), page_size * page + page_size))

(* Paginator::num_items_and_pages *)
NumberOfPages(num_items, page_size) ==
    (num_items \div page_size) + (IF num_items % page_size > 0 THEN 1 ELSE 0)

(* page.unwrap_or(1).max(1) *)
ClampPage(page) == Max(IF page.some THEN page.v ELSE DefaultPage, MinPage)

(* a variant of ClampPageSize without the upper limit *)
ClampPageSize_NoMax(page_size) ==
    Max(IF page_size.some THEN page_size.v ELSE DefaultPageSize, MinPageSize)

(* page_size.unwrap_or(10).max(1).min(100) *)
ClampPageSize(page_size) ==
    Min(Max(IF page_size.some THEN page_size.v ELSE DefaultPageSize, MinPageSize),
        MaxPageSize)

CollectionsResult(collection_name, page, page_size, created_after, created_before) ==
    LET page_num == ClampPage(page)
        size == ClampPageSize(page_size)
        rows == FilteredCollections(collection_name, created_after, created_before)
        items == FetchPage(rows, AsU64(size), AsU64(page_num) - 1)
    IN  IF collection_name.some /\ ~TsQueryOk(collection_name.v)
        THEN [ result |-> Err("StoreError", "syntax error in tsquery"),
               issued |-> << "collections_page" >> ]
        ELSE [ result |-> Ok([ items |-> items,
                               num_pages |-> NumberOfPages(Len(rows), AsU64(size)),
                               num_items |-> Len(rows),
                               index |-> page_num,
                               size |-> size ]),
               issued |-> << "collections_page", "collections_count" >> ]

PaginateCollections(collection_name, page, page_size, created_after, created_before) ==
    /\ phase = "idle"
    /\ phase' = "done"
    /\ call' = [op |-> "paginate_collections", collection_name |-> collection_name,
                page |-> page, page_size |-> page_size,
                created_after |-> created_after, created_before |-> created_before]
    /\ LET r == CollectionsResult(collection_name, page, page_size,
                                  created_after, created_before)
       IN result' = r.result /\ issued' = r.issued
    /\ UNCHANGED << tables, concurrent >>

NameQueries == { None, Some(<< "post" >>), Some(<< "blog", "posts" >>) }
Pages == { None, Some(0), Some(2), Some(3), Some(MinI32), Some(MaxI32) }
PageSizes == { None, Some(0), Some(1), Some(2), Some(500) }
TimeBounds == { None, Some(2) }

----------------------------------------------------------------------------
(* Collection::entry *)

(* a variant of EntryByNameQuery without the collection condition *)
EntryByNameQuery_AnyCollection(collection_id, name) ==
    [ joins |-> << >>, conds |-> << Cond("entries", "name", "eq", name) >> ]

(* Entity::find().filter(CollectionId.eq(id)).filter(Name.eq(name)) *)
EntryByNameQuery(collection_id, name) ==
    Filter(BaseQuery(collection_id), Cond("entries", "name", "eq", name))

(* .one(db) on a statement without joins: the first row of entries in scan
   order that satisfies the conditions, if any *)
SelectOne(query) ==
    One(entries, { e \in DOMAIN entries : Multiplicity(query, entries[e]) > 0 })

EntryResult(collection_id, name) ==
    LET e == SelectOne(EntryByNameQuery(collection_id, name))
    IN [ result |-> IF e.some THEN Ok(e.v) ELSE Err("EntryNotFound", name),
         issued |-> << "entry" >> ]

GetEntryByName(collection_id, name) ==
    /\ phase = "idle"
    /\ phase' = "done"
    /\ call' = [op |-> "get_entry_by_name", collection_id |-> collection_id,
                name |-> name]
    /\ LET r == EntryResult(collection_id, name)
       IN result' = r.result /\ issued' = r.issued
    /\ UNCHANGED << tables, concurrent >>

(* the names asked for: those of the entries, one of them in upper case, and
   the name of no entry *)
NameArgs == { entries[e].name : e \in DOMAIN entries } \cup { "N1", "zz" }

----------------------------------------------------------------------------

(* a request slot without a request, and the locals of a resolver that has
   not run *)
Tasks == 1..NumTasks
IdleTask == [pc |-> "idle", call |-> [op |-> "none"], result |-> Ok(<< >>),
             issued |-> << >>, fault |-> None]
EmptyFrame == [ query |-> [joins |-> << >>, conds |-> << >>], fields |-> << >>,
                values |-> << >>, items |-> << >> ]
Quiet == /\ tasks = [s \in Tasks |-> IdleTask]
         /\ frames = [s \in Tasks |-> EmptyFrame]

Idle == /\ phase = "idle"
        /\ call = [op |-> "none"]
        /\ result = Ok(<< >>)
        /\ issued = << >>

Init ==
    /\ \E edit \in Edits :
          /\ entry_text_values = TableOf("Text", edit)
          /\ entry_typst_text_values = TableOf("TypstText", edit)
          /\ entry_boolean_values = TableOf("Boolean", edit)
          /\ entry_number_values = TableOf("Number", edit)
          /\ entry_date_time_values = TableOf("DateTime", edit)
          /\ entry_text_list_values = TableOf("TextList", edit)
          /\ entry_number_list_values = TableOf("NumberList", edit)
          /\ entry_relation_values = TableOf("Relation", edit)
          /\ entry_object_values = TableOf("Object", edit)
    /\ Idle
    /\ Quiet

Return ==
    /\ phase = "done"
    /\ phase' = "idle"
    /\ call' = [op |-> "none"]
    /\ result' = Ok(<< >>)
    /\ issued' = << >>
    /\ UNCHANGED << tables, concurrent >>

Next ==
    \/ \E c \in ListEntriesCalls : ListEntries(c[1], c[2], c[3])
    \/ \E c \in CollectionIds, n \in NameArgs : GetEntryByName(c, n)
    \/ \E e \in DOMAIN entries : Materialize(entries[e])
    \/ \E n \in NameQueries, p \in Pages, ps \in PageSizes,
          after \in TimeBounds, before \in TimeBounds :
          PaginateCollections(n, p, ps, after, before)
    \/ Return

Spec == Init /\ [][Next]_vars

----------------------------------------------------------------------------
(* Requests answered concurrently.  The graphql handler runs each request as
   a future of its own, with an AppData of its own; a resolver gives way to
   the other requests at each storage round trip it awaits, and nowhere
   else. *)

(* a variant of FrameOf in which every resolver keeps its locals in one
   place *)
FrameOf_Shared(s) == 1

(* the locals of the resolver of request s are its own *)
FrameOf(s) == s

(* the stores that concurrent requests are run against *)
ConcurrentEdits ==
    { NoEdit, << 1, 1, "absent" >>, << 1, 10, "null" >>, << NumEntries, 5, "absent" >> }

(* the requests that are run concurrently *)
ConcurrentCalls ==
    { [op |-> "list_entries", collection_id |-> 1, filters |-> None,
       order_by |-> None],
      [op |-> "list_entries", collection_id |-> 1,
       filters |-> Some(Bucket(<< << "text", [field_name |-> "title",
                                            comparison |-> "Eq",
                                            value |-> << "b" >>] >> >>)),
       order_by |-> Some("Desc")],
      [op |-> "list_entries", collection_id |-> 2,
       filters |-> Some(Bucket(<< << "number", [field_name |-> "tax",
                                              comparison |-> "Gte",
                                              value |-> 1] >> >>)),
       order_by |-> None],
      [op |-> "get_entry_by_name", collection_id |-> 1, name |-> "n1"],
      [op |-> "get_entry_by_name", collection_id |-> 2, name |-> "n2"],
      [op |-> "materialize", entry |-> entries[1]],
      [op |-> "materialize", entry |-> entries[NumEntries]],
      [op |-> "paginate_collections", collection_name |-> None, page |-> Some(2),
       page_size |-> Some(1), created_after |-> None, created_before |-> None],
      [op |-> "paginate_collections", collection_name |-> Some(<< "blog", "posts" >>),
       page |-> None, page_size |-> None, created_after |-> None,
       created_before |-> Some(2)] }

(* the first round trip of each resolver *)
FirstStep(op) ==
    CASE op = "list_entries" -> "fields"
      [] op = "get_entry_by_name" -> "entry"
      [] op = "materialize" -> "value_fields"
      [] op = "paginate_collections" -> "page"

Begin(s, c) ==
    /\ tasks[s].pc = "idle"
    /\ tasks' = [tasks EXCEPT ![s] = [pc |-> FirstStep(c.op), call |-> c,
                                      result |-> Ok(<< >>), issued |-> << >>,
                                      fault |-> None]]
    /\ frames' = [frames EXCEPT ![FrameOf(s)] = EmptyFrame]
    /\ UNCHANGED << tables, sequential >>

(* Collection::entries up to its second await: the fields arrive, the
   filters are compiled *)
ListFields(s) ==
    /\ tasks[s].pc = "fields"
    /\ LET c == tasks[s].call
           fs == FieldsOf(c.collection_id)
           compiled == IF c.filters.some
                       THEN apply_typed_filters(BaseQuery(c.collection_id), fs,
                                                c.filters.v)
                       ELSE Ok(BaseQuery(c.collection_id))
       IN IF ~compiled.ok
          THEN /\ tasks' = [tasks EXCEPT ![s].pc = "done", ![s].result = compiled,
                                         ![s].issued = Append(@, "fields")]
               /\ frames' = [frames EXCEPT ![FrameOf(s)].fields = fs]
          ELSE /\ tasks' = [tasks EXCEPT ![s].pc = "entries",
                                         ![s].issued = Append(@, "fields")]
               /\ frames' = [frames EXCEPT ![FrameOf(s)].fields = fs,
                                           ![FrameOf(s)].query = compiled.v]
    /\ UNCHANGED << tables, sequential >>

(* Collection::entries from its second await: the entries arrive *)
ListAll(s) ==
    /\ tasks[s].pc = "entries"
    /\ LET c == tasks[s].call
           order == IF c.order_by.some THEN c.order_by.v ELSE "Asc"
       IN tasks' = [tasks EXCEPT ![s].pc = "done",
                                 ![s].result = SelectAll(frames[FrameOf(s)].query, order),
                                 ![s].issued = Append(@, "entries")]
    /\ UNCHANGED << tables, sequential, frames >>

(* Collection::entry: its one round trip *)
EntryOne(s) ==
    /\ tasks[s].pc = "entry"
    /\ LET c == tasks[s].call
           e == SelectOne(EntryByNameQuery(c.collection_id, c.name))
       IN tasks' = [tasks EXCEPT ![s].pc = "done",
                       ![s].result = IF e.some THEN Ok(e.v)
                                     ELSE Err("EntryNotFound", c.name),
                       ![s].issued = Append(@, "entry")]
    /\ UNCHANGED << tables, sequential, frames >>

(* Entry::values up to the loop: the fields arrive *)
ValuesFields(s) ==
    /\ tasks[s].pc = "value_fields"
    /\ LET fs == FieldsOf(tasks[s].call.entry.collection_id)
       IN /\ frames' = [frames EXCEPT ![FrameOf(s)].fields = fs,
                                      ![FrameOf(s)].values = << >>]
          /\ tasks' = IF fs = << >>
                      THEN [tasks EXCEPT ![s].pc = "done", ![s].result = Ok(<< >>),
                                         ![s].issued = Append(@, "value_fields")]
                      ELSE [tasks EXCEPT ![s].pc = "value",
                                         ![s].issued = Append(@, "value_fields")]
    /\ UNCHANGED << tables, sequential >>

(* Entry::values, one turn of the loop: the value of the next field arrives *)
ValuesNext(s) ==
    /\ tasks[s].pc = "value"
    /\ frames[FrameOf(s)].fields # << >>
    /\ LET frame == frames[FrameOf(s)]
           field == Head(frame.fields)
           v == from_data_type(field.data_type, tasks[s].call.entry.id, field.id)
           values == IF v.some
                     THEN Append(frame.values, [field |-> field, value |-> v.v])
                     ELSE frame.values
       IN /\ frames' = [frames EXCEPT ![FrameOf(s)].fields = Tail(frame.fields),
                                      ![FrameOf(s)].values = values]
          /\ tasks' = IF Tail(frame.fields) = << >>
                      THEN [tasks EXCEPT ![s].pc = "done", ![s].result = Ok(values),
                                         ![s].issued = Append(@, "value")]
                      ELSE [tasks EXCEPT ![s].issued = Append(@, "value")]
    /\ UNCHANGED << tables, sequential >>

(* Query::collections up to its second await: the page arrives *)
PageFetch(s) ==
    /\ tasks[s].pc = "page"
    /\ LET c == tasks[s].call
           rows == FilteredCollections(c.collection_name, c.created_after,
                                       c.created_before)
           items == FetchPage(rows, AsU64(ClampPageSize(c.page_size)),
                              AsU64(ClampPage(c.page)) - 1)
       IN IF c.collection_name.some /\ ~TsQueryOk(c.collection_name.v)
          THEN /\ tasks' = [tasks EXCEPT ![s].pc = "done",
                               ![s].result = Err("StoreError", "syntax error in tsquery"),
                               ![s].issued = Append(@, "page")]
               /\ UNCHANGED frames
          ELSE /\ tasks' = [tasks EXCEPT ![s].pc = "count",
                                         ![s].issued = Append(@, "page")]
               /\ frames' = [frames EXCEPT ![FrameOf(s)].items = items]
    /\ UNCHANGED << tables, sequential >>

(* Query::collections from its second await: the count arrives *)
PageCount(s) ==
    /\ tasks[s].pc = "count"
    /\ LET c == tasks[s].call
           size == ClampPageSize(c.page_size)
           num_items == Len(FilteredCollections(c.collection_name, c.created_after,
                                                c.created_before))
       IN tasks' = [tasks EXCEPT ![s].pc = "done",
                       ![s].result = Ok([ items |-> frames[FrameOf(s)].items,
                                          num_pages |-> NumberOfPages(num_items, AsU64(size)),
                                          num_items |-> num_items,
                                          index |-> ClampPage(c.page),
                                          size |-> size ]),
                       ![s].issued = Append(@, "count")]
    /\ UNCHANGED << tables, sequential, frames >>

(* the response is sent *)
Respond(s) ==
    /\ tasks[s].pc = "done"
    /\ tasks' = [tasks EXCEPT ![s] = IdleTask]
    /\ UNCHANGED << tables, sequential, frames >>

InitConcurrent ==
    /\ \E edit \in ConcurrentEdits :
          /\ entry_text_values = TableOf("Text", edit)
          /\ entry_typst_text_values = TableOf("TypstText", edit)
          /\ entry_boolean_values = TableOf("Boolean", edit)
          /\ entry_number_values = TableOf("Number", edit)
          /\ entry_date_time_values = TableOf("DateTime", edit)
          /\ entry_text_list_values = TableOf("TextList", edit)
          /\ entry_number_list_values = TableOf("NumberList", edit)
          /\ entry_relation_values = TableOf("Relation", edit)
          /\ entry_object_values = TableOf("Object", edit)
    /\ Idle
    /\ Quiet

NextConcurrent ==
    \/ \E s \in Tasks, c \in ConcurrentCalls : Begin(s, c)
    \/ \E s \in Tasks : ListFields(s)
    \/ \E s \in Tasks : ListAll(s)
    \/ \E s \in Tasks : EntryOne(s)
    \/ \E s \in Tasks : ValuesFields(s)
    \/ \E s \in Tasks : ValuesNext(s)
    \/ \E s \in Tasks : PageFetch(s)
    \/ \E s \in Tasks : PageCount(s)
    \/ \E s \in Tasks : Respond(s)

SpecConcurrent == InitConcurrent /\ [][NextConcurrent]_vars

----------------------------------------------------------------------------

(* Requests whose storage round trips can fail.  Every round trip is awaited
   with `.await?`: when the store answers with an error the resolver returns
   at once with that error. *)

(* a variant of OnStoreError that answers with what the resolver has
   collected so far *)
OnStoreError_Partial(frame, err) == Ok(frame.values)

(* `?` on the Err of a round trip: return Err(err.into()) *)
OnStoreError(frame, err) == Err("StoreError", err)

(* the positions at which a resolver awaits the store *)
Awaiting == { "fields", "entries", "entry", "value_fields", "value", "page", "count" }

(* the round trip that request s is waiting for is issued and fails *)
RoundTripFails(s) ==
    /\ tasks[s].pc \in Awaiting
    /\ tasks' = [tasks EXCEPT
                   ![s].pc = "done",
                   ![s].result = OnStoreError(frames[FrameOf(s)], "connection lost"),
                   ![s].issued = Append(@, tasks[s].pc),
                   ![s].fault = Some(tasks[s].pc)]
    /\ UNCHANGED << tables, sequential, frames >>

(* the requests that are run against a store that can fail *)
FailingCalls ==
    { [op |-> "list_entries", collection_id |-> 1,
       filters |-> Some(Bucket(<< << "text", [field_name |-> "title",
                                            comparison |-> "Eq",
                                            value |-> << "b" >>] >> >>)),
       order_by |-> None],
      [op |-> "get_entry_by_name", collection_id |-> 1, name |-> "n1"],
      [op |-> "materialize", entry |-> entries[1]],
      [op |-> "paginate_collections", collection_name |-> None, page |-> Some(2),
       page_size |-> Some(1), created_after |-> None, created_before |-> None] }

NextFailing ==
    \/ \E s \in Tasks, c \in FailingCalls : Begin(s, c)
    \/ \E s \in Tasks : ListFields(s)
    \/ \E s \in Tasks : ListAll(s)
    \/ \E s \in Tasks : EntryOne(s)
    \/ \E s \in Tasks : ValuesFields(s)
    \/ \E s \in Tasks : ValuesNext(s)
    \/ \E s \in Tasks : PageFetch(s)
    \/ \E s \in Tasks : PageCount(s)
    \/ \E s \in Tasks : RoundTripFails(s)
    \/ \E s \in Tasks : Respond(s)

(* the stores of InitConcurrent whose edges and numbers are those of the
   base store *)
InitFailing ==
    /\ InitConcurrent
    /\ entry_relation_values = TableOf("Relation", NoEdit)
    /\ entry_number_values = TableOf("Number", NoEdit)

SpecFailing == InitFailing /\ [][NextFailing]_vars

----------------------------------------------------------------------------

(* Vocabulary of the properties *)

Done(op) == phase = "done" /\ call.op = op

(* the filters of an optional EntryFilters value, tagged with their kind, in
   the order of the seven kinds and of each sequence *)
TaggedFilters(filters) ==
    IF ~filters.some THEN << >>
    ELSE Flatten([ k \in DOMAIN Kinds |->
            LET opt == FiltersOfKind(filters.v, Kinds[k])
            IN IF opt.some THEN [ i \in DOMAIN opt.v |-> << Kinds[k], opt.v[i] >> ]
               ELSE << >> ])

Range(seq) == { seq[i] : i \in DOMAIN seq }

ResultIds == { result.v[i].id : i \in DOMAIN result.v }

EntriesOfCollection(c) == { e \in EntryIds : entries[e].collection_id = c }

(* the field of the catalog fs that has the name *)
FieldNamed(fs, name) == fs[CHOOSE i \in DOMAIN fs : fs[i].name = name]
HasFieldNamed(fs, name) == \E i \in DOMAIN fs : fs[i].name = name

(* entry e has a value row (an edge, for a Relation field) for the field in
   the table of the field's declared data type *)
HasStoredRow(e, field) ==
    LET rows == TableRows(TableOfType(field.data_type))
    IN \E i \in DOMAIN rows :
          /\ rows[i].field_id = field.id
          /\ IF field.data_type = "Relation" THEN rows[i].from_entry_id = e
             ELSE rows[i].entry_id = e

(* the entries that the one filter t alone selects in collection c *)
SelectedByOne(c, t) ==
    LET q == ApplyFilter(t[1], BaseQuery(c), FieldsOf(c), t[2])
        r == SelectAll(q.v, "Asc")
    IN { r.v[i].id : i \in DOMAIN r.v }

----------------------------------------------------------------------------
(* C1: when every filter of the set validates, list_entries returns exactly
   the entries of the collection that each single filter selects (the
   conjunction over all kinds and over every element of a kind's sequence);
   two number filters on two fields return the entries that match both. *)
C1_Conjunction ==
    (/\ Done("list_entries")
     /\ call.filters.some
     /\ apply_typed_filters(BaseQuery(call.collection_id),
                            FieldsOf(call.collection_id), call.filters.v).ok)
    => /\ result.ok
       /\ ResultIds =
            { e \in EntriesOfCollection(call.collection_id) :
                \A t \in Range(TaggedFilters(call.filters)) :
                   e \in SelectedByOne(call.collection_id, t) }

(* C2: under a text, number, boolean, date-time, list or object filter, no
   returned entry lacks a value row for the filtered field, whatever the
   comparison. *)
C2_NoRowExcluded ==
    (Done("list_entries") /\ result.ok)
    => \A i \in DOMAIN result.v :
          \A t \in Range(TaggedFilters(call.filters)) :
             t[1] # "relation"
             => HasStoredRow(result.v[i].id,
                             FieldNamed(FieldsOf(call.collection_id), t[2].field_name))

(* the case of C2: the boolean filter {paid, Neq, TRUE} alone, an entry of
   the collection without a paid row, and a non-empty result *)
C2_Witness ==
    /\ Done("list_entries")
    /\ call.collection_id = 1
    /\ TaggedFilters(call.filters) =
         << << "boolean", [field_name |-> "paid", comparison |-> "Neq",
                           value |-> TRUE] >> >>
    /\ result.ok
    /\ result.v # << >>
    /\ \E e \in EntriesOfCollection(1) :
          ~HasStoredRow(e, FieldNamed(FieldsOf(1), "paid"))

(* C3 as stated: under a relation filter, whatever the comparison, no
   returned entry lacks an edge row for the filtered Relation field. *)
C3_NoEdgeExcluded ==
    (Done("list_entries") /\ result.ok)
    => \A i \in DOMAIN result.v :
          \A t \in Range(TaggedFilters(call.filters)) :
             t[1] = "relation"
             => HasStoredRow(result.v[i].id,
                             FieldNamed(FieldsOf(call.collection_id), t[2].field_name))

PositiveRelation == { "ConnectedTo", "HasConnections" }
NegativeRelation == { "NotConnectedTo", "HasNoConnections" }

(* C3 amended: under ConnectedTo and HasConnections no returned entry lacks
   an edge row for the filtered field; under NotConnectedTo and
   HasNoConnections as the only filter, every entry of the collection that
   has no edge row for the field is returned. *)
C3_EdgeExclusionBySign ==
    (Done("list_entries") /\ result.ok)
    => LET ts == TaggedFilters(call.filters)
           field(t) == FieldNamed(FieldsOf(call.collection_id), t[2].field_name)
       IN /\ \A t \in Range(ts) :
                (t[1] = "relation" /\ t[2].comparison \in PositiveRelation)
                => \A i \in DOMAIN result.v : HasStoredRow(result.v[i].id, field(t))
          /\ (/\ Len(ts) = 1
              /\ ts[1][1] = "relation"
              /\ ts[1][2].comparison \in NegativeRelation)
             => \A e \in EntriesOfCollection(call.collection_id) :
                   ~HasStoredRow(e, field(ts[1])) => e \in ResultIds

(* the case of C3: HasNoConnections alone returns an entry without an edge,
   and the store holds an entry of the collection that has edges *)
C3_Witness ==
    /\ Done("list_entries")
    /\ result.ok
    /\ LET ts == TaggedFilters(call.filters)
       IN /\ Len(ts) = 1
          /\ ts[1][1] = "relation"
          /\ ts[1][2].comparison = "HasNoConnections"
          /\ \E i \in DOMAIN result.v :
                ~HasStoredRow(result.v[i].id,
                              FieldNamed(FieldsOf(call.collection_id), "author"))
          /\ \E e \in EntriesOfCollection(call.collection_id) :
                e \notin ResultIds

(* C4: a filter of any kind on a field name that the collection's catalog
   does not hold makes list_entries fail without the entries query being
   issued; alone, or as the first filter that fails, it fails with
   FieldNotFound naming the field. *)
C4_FieldNotFound ==
    Done("list_entries")
    => LET fs == FieldsOf(call.collection_id)
           ts == TaggedFilters(call.filters)
           absent(t) == ~HasFieldNamed(fs, t[2].field_name)
           fails(t) == ~ApplyFilter(t[1], BaseQuery(call.collection_id), fs, t[2]).ok
       IN /\ (\E j \in DOMAIN ts : absent(ts[j]))
             => (~result.ok /\ issued = << "fields" >>)
          /\ \A j \in DOMAIN ts :
                (absent(ts[j]) /\ \A k \in 1..(j - 1) : ~fails(ts[k]))
                => result = Err("FieldNotFound", ts[j][2].field_name)

(* the case of C4: an object filter on a field of no collection, after a
   valid filter, fails with FieldNotFound *)
C4_Witness ==
    /\ Done("list_entries")
    /\ LET ts == TaggedFilters(call.filters)
       IN /\ Len(ts) = 2
          /\ ts[1][1] = "text"
          /\ ts[1][2].field_name = "title"
          /\ ts[2][1] = "object"
          /\ ts[2][2].field_name = "nope"
    /\ result = Err("FieldNotFound", "nope")
    /\ issued = << "fields" >>

(* the data types that each filter kind accepts *)
AllowedTypes(kind) ==
    CASE kind = "text" -> { "Text", "TypstText" }
      [] kind = "number" -> { "Number" }
      [] kind = "boolean" -> { "Boolean" }
      [] kind = "date_time" -> { "DateTime" }
      [] kind = "list" -> { "TextList", "NumberList" }
      [] kind = "relation" -> { "Relation" }
      [] kind = "object" -> { "Object" }

(* C5: a filter on an existing field fails with FieldTypeMismatch exactly
   when the field's declared data type is outside the allowed set of the
   filter's kind (for the first filter of the set that fails, or the only
   one). *)
C5_FieldTypeMismatch ==
    Done("list_entries")
    => LET fs == FieldsOf(call.collection_id)
           ts == TaggedFilters(call.filters)
           fails(t) == ~ApplyFilter(t[1], BaseQuery(call.collection_id), fs, t[2]).ok
       IN \A j \in DOMAIN ts :
            (/\ HasFieldNamed(fs, ts[j][2].field_name)
             /\ \A k \in 1..(j - 1) : ~fails(ts[k]))
            => LET field == FieldNamed(fs, ts[j][2].field_name)
                   mismatch == result = Err("FieldTypeMismatch", ts[j][2].field_name)
               IN IF field.data_type \in AllowedTypes(ts[j][1])
                  THEN ~(~result.ok /\ result.kind = "FieldTypeMismatch"
                         /\ fails(ts[j]))
                  ELSE mismatch

(* the case of C5: a list filter on the NumberList field is not a type
   mismatch, and the request is answered *)
C5_Witness ==
    /\ Done("list_entries")
    /\ LET ts == TaggedFilters(call.filters)
       IN /\ Len(ts) = 1
          /\ ts[1][1] = "list"
          /\ ts[1][2].field_name = "sizes"
          /\ ts[1][2].comparison = "IsNotEmpty"
    /\ result.ok
    /\ result.v # << >>

(* the other case of C5: a number filter on the Text field fails with
   FieldTypeMismatch *)
C5_WitnessMismatch ==
    /\ Done("list_entries")
    /\ LET ts == TaggedFilters(call.filters)
       IN /\ Len(ts) = 1
          /\ ts[1][1] = "number"
          /\ ts[1][2].field_name = "title"
    /\ result = Err("FieldTypeMismatch", "title")

(* C6: when any filter of the set fails to compile, list_entries returns an
   error and the entries query is not issued; the entries query is issued
   only when every filter of the set compiles. *)
C6_AtomicCompilation ==
    Done("list_entries")
    => LET fs == FieldsOf(call.collection_id)
           ts == TaggedFilters(call.filters)
           fails(t) == ~ApplyFilter(t[1], BaseQuery(call.collection_id), fs, t[2]).ok
       IN /\ (\E j \in DOMAIN ts : fails(ts[j]))
             => (~result.ok /\ issued = << "fields" >>)
          /\ (\E i \in DOMAIN issued : issued[i] = "entries")
             => \A j \in DOMAIN ts : ~fails(ts[j])

(* the case of C6: the last filter of the last kind fails after a valid
   filter of another kind *)
C6_Witness ==
    /\ Done("list_entries")
    /\ LET ts == TaggedFilters(call.filters)
           fs == FieldsOf(call.collection_id)
       IN /\ Len(ts) >= 2
          /\ ts[Len(ts)][1] = "object"
          /\ ApplyFilter(ts[1][1], BaseQuery(call.collection_id), fs, ts[1][2]).ok
          /\ ~ApplyFilter("object", BaseQuery(call.collection_id), fs,
                          ts[Len(ts)][2]).ok
    /\ ~result.ok
    /\ issued = << "fields" >>

IsSortedBy(rows, order) ==
    \A i, j \in DOMAIN rows :
       i < j => IF order = "Asc" THEN rows[i].created_at <= rows[j].created_at
                ELSE rows[i].created_at >= rows[j].created_at

(* C7: without filters list_entries returns each entry of the collection
   once and no other entry, by created_at ascending when order_by is Asc or
   omitted and descending when it is Desc. *)
C7_UnfilteredListing ==
    (Done("list_entries") /\ ~call.filters.some)
    => /\ result.ok
       /\ ResultIds = EntriesOfCollection(call.collection_id)
       /\ Len(result.v) = Cardinality(EntriesOfCollection(call.collection_id))
       /\ \A i \in DOMAIN result.v : result.v[i] = entries[result.v[i].id]
       /\ IsSortedBy(result.v, IF call.order_by.some THEN call.order_by.v ELSE "Asc")

(* the case of C7: a descending listing of several entries, not all of one
   created_at, of a store that holds entries of another collection *)
C7_Witness ==
    /\ Done("list_entries")
    /\ ~call.filters.some
    /\ call.order_by = Some("Desc")
    /\ result.ok
    /\ Len(result.v) >= 2
    /\ result.v[1].created_at > result.v[Len(result.v)].created_at
    /\ \E e \in EntryIds : entries[e].collection_id # call.collection_id

(* C8: materialize returns one pair for each field of the entry's collection
   that has a stored row for the entry in the table of the field's data type,
   in catalog order, and nothing for a field without a row. *)
C8_SparseValues ==
    Done("materialize")
    => LET fs == FieldsOf(call.entry.collection_id)
           stored == SelectSeq2(fs, { i \in DOMAIN fs :
                                        HasStoredRow(call.entry.id, fs[i]) })
       IN /\ result.ok
          /\ Len(result.v) = Len(stored)
          /\ \A i \in DOMAIN result.v :
                /\ result.v[i].field = stored[i]
                /\ result.v[i].value.tag = stored[i].data_type
          /\ Len(result.v) <= Cardinality({ i \in DOMAIN fs :
                                              HasStoredRow(call.entry.id, fs[i]) })

(* the case of C8: an entry with a value for some fields of its collection
   and none for another *)
C8_Witness ==
    /\ Done("materialize")
    /\ result.ok
    /\ result.v # << >>
    /\ Len(result.v) < Len(FieldsOf(call.entry.collection_id))

(* the least n with n * size >= items *)
CeilDiv(items, size) ==
    CHOOSE n \in 0..items : n * size >= items /\ \A m \in 0..(n - 1) : m * size < items

(* C9: paginate_collections echoes index = max(page, 1) and
   size = min(max(page_size, 1), 100), with 1 and 10 for an omitted page and
   page_size, and reports num_pages = ceil(num_items / size); the zero-based
   page index - 1 is not negative. *)
C9_ClampedPage ==
    (Done("paginate_collections") /\ result.ok)
    => LET p == IF call.page.some THEN call.page.v ELSE 1
           ps == IF call.page_size.some THEN call.page_size.v ELSE 10
       IN /\ result.v.index = (IF p > 1 THEN p ELSE 1)
          /\ result.v.size = (IF ps < 1 THEN 1 ELSE IF ps > 100 THEN 100 ELSE ps)
          /\ result.v.num_pages = CeilDiv(result.v.num_items, result.v.size)
          /\ result.v.index - 1 >= 0

(* the case of C9: page 0 and page_size 500 are answered with page 1 of
   size 100 *)
C9_Witness ==
    /\ Done("paginate_collections")
    /\ call.page = Some(0)
    /\ call.page_size = Some(500)
    /\ result.ok
    /\ result.v.index = 1
    /\ result.v.size = 100
    /\ result.v.num_pages = 1
    /\ result.v.num_items > 1

(* the collections with the name and with created_at within the bounds, both
   bounds included, in scan order *)
PassingCollections(name, after, before) ==
    SelectSeq2(collections,
        { i \in DOMAIN collections :
            /\ name.some => TsMatch(collections[i].name, name.v)
            /\ after.some => ~(collections[i].created_at < after.v)
            /\ before.some => ~(collections[i].created_at > before.v) })

(* C10: the items are the collections at the positions
   (index-1)*size+1 .. index*size of the sequence of the collections that
   pass the filters (none past its end), and num_items is the length of that
   sequence on every page; a collection created at a bound passes. *)
C10_PageItems ==
    (Done("paginate_collections") /\ result.ok)
    => LET all == PassingCollections(call.collection_name, call.created_after,
                                     call.created_before)
           index == result.v.index
           size == result.v.size
       IN /\ result.v.num_items = Len(all)
          /\ Len(result.v.items) <= size
          /\ IF index - 1 >= Len(all) THEN result.v.items = << >>
             ELSE result.v.items =
                    SubSeq(all, (index - 1) * size + 1, Min(index * size, Len(all)))

(* the case of C10: the second page of size 1, whose item was created at
   the created_after bound *)
C10_Witness ==
    /\ Done("paginate_collections")
    /\ call.page = Some(2)
    /\ call.page_size = Some(1)
    /\ call.created_after.some
    /\ result.ok
    /\ Len(result.v.items) = 1
    /\ result.v.items[1].created_at = call.created_after.v
    /\ result.v.num_items >= 2

(* the relation filter t names a Relation field of the catalog fs and one of
   the two comparisons that take a target, and its target is present *)
TargetedRelation(fs, t) ==
    /\ t[1] = "relation"
    /\ t[2].comparison \in { "ConnectedTo", "NotConnectedTo" }
    /\ HasFieldNamed(fs, t[2].field_name)
    /\ FieldNamed(fs, t[2].field_name).data_type = "Relation"
    /\ t[2].target_entry_id.some

(* C11: a ConnectedTo or NotConnectedTo filter on a Relation field of the
   collection whose target_entry_id is present and is not the text of a UUID
   makes list_entries fail without the entries query being issued and without
   a storage error; alone, or as the first filter that fails, it fails with
   InvalidOperand. *)
C11_InvalidOperand ==
    Done("list_entries")
    => LET fs == FieldsOf(call.collection_id)
           ts == TaggedFilters(call.filters)
           fails(t) == ~ApplyFilter(t[1], BaseQuery(call.collection_id), fs, t[2]).ok
           unparsable(t) == /\ TargetedRelation(fs, t)
                            /\ t[2].target_entry_id.v \notin
                                 (Range(UuidText) \cup Range(UuidUpper) \cup { "u9" })
       IN \A j \in DOMAIN ts :
            unparsable(ts[j])
            => /\ ~result.ok
               /\ result.kind # "StoreError"
               /\ issued = << "fields" >>
               /\ (\A k \in 1..(j - 1) : ~fails(ts[k]))
                  => result = Err("InvalidOperand", ts[j][2].field_name)

(* the case of C11: NotConnectedTo "not-a-uuid" on the Relation field, alone *)
C11_Witness ==
    /\ Done("list_entries")
    /\ TaggedFilters(call.filters) =
         << << "relation", [field_name |-> "author", comparison |-> "NotConnectedTo",
                            target_entry_id |-> Some("not-a-uuid")] >> >>
    /\ result = Err("InvalidOperand", "author")
    /\ issued = << "fields" >>

(* the entry ids that the identifier text s denotes: at most one *)
IdsOfText(s) == { e \in EntryIds : s = UuidText[e] \/ s = UuidUpper[e] }

(* the edge rows of entry e for the field, into any entry of targets *)
EdgesOf(e, field, targets) ==
    { i \in DOMAIN entry_relation_values :
        /\ entry_relation_values[i].from_entry_id = e
        /\ entry_relation_values[i].field_id = field.id
        /\ entry_relation_values[i].to_entry_id \in targets }

(* C12: as the only filter, ConnectedTo(field, t) returns exactly the entries
   of the collection that have an edge row (entry, field, t), and
   HasConnections(field) exactly those that have an edge row for the field,
   whatever its target and whatever target_entry_id was supplied; each
   returned entry appears once, however many edges it has. *)
C12_ExactlyConnected ==
    (/\ Done("list_entries")
     /\ Len(TaggedFilters(call.filters)) = 1
     /\ TaggedFilters(call.filters)[1][1] = "relation"
     /\ TaggedFilters(call.filters)[1][2].comparison \in PositiveRelation
     /\ HasFieldNamed(FieldsOf(call.collection_id),
                      TaggedFilters(call.filters)[1][2].field_name))
    => LET f == TaggedFilters(call.filters)[1][2]
           field == FieldNamed(FieldsOf(call.collection_id), f.field_name)
           mine == EntriesOfCollection(call.collection_id)
       IN  field.data_type = "Relation"
           => IF f.comparison = "HasConnections"
              THEN /\ result.ok
                   /\ ResultIds = { e \in mine : EdgesOf(e, field, EntryIds) # { } }
                   /\ Len(result.v) = Cardinality(ResultIds)
              ELSE (/\ f.target_entry_id.some
                    /\ f.target_entry_id.v \in
                         (Range(UuidText) \cup Range(UuidUpper) \cup { "u9" }))
                   => /\ result.ok
                      /\ ResultIds =
                           { e \in mine :
                               EdgesOf(e, field, IdsOfText(f.target_entry_id.v)) # { } }
                      /\ Len(result.v) = Cardinality(ResultIds)

(* the case of C12: ConnectedTo alone returns an entry that has several edges
   for the field, once, and leaves out an entry of the collection whose edges
   all lead elsewhere *)
C12_Witness ==
    /\ Done("list_entries")
    /\ result.ok
    /\ LET ts == TaggedFilters(call.filters)
           field == FieldNamed(FieldsOf(call.collection_id), "author")
       IN /\ Len(ts) = 1
          /\ ts[1][1] = "relation"
          /\ ts[1][2].field_name = "author"
          /\ ts[1][2].comparison = "ConnectedTo"
          /\ \E i \in DOMAIN result.v :
                /\ Cardinality(EdgesOf(result.v[i].id, field, EntryIds)) >= 2
                /\ \A j \in DOMAIN result.v : result.v[j].id = result.v[i].id => j = i
          /\ \E e \in EntriesOfCollection(call.collection_id) :
                e \notin ResultIds /\ EdgesOf(e, field, EntryIds) # { }

(* the list_entries call is the one list filter Contains on a TextList field
   of the collection, with a values operand that has a first element *)
ContainsOnTextList ==
    /\ Done("list_entries")
    /\ Len(TaggedFilters(call.filters)) = 1
    /\ TaggedFilters(call.filters)[1][1] = "list"
    /\ TaggedFilters(call.filters)[1][2].comparison = "Contains"
    /\ HasFieldNamed(FieldsOf(call.collection_id),
                     TaggedFilters(call.filters)[1][2].field_name)
    /\ FieldNamed(FieldsOf(call.collection_id),
                  TaggedFilters(call.filters)[1][2].field_name).data_type = "TextList"
    /\ TaggedFilters(call.filters)[1][2].values.some
    /\ TaggedFilters(call.filters)[1][2].values.v # << >>

(* C13: list_entries with the one filter Contains(values) on a TextList field
   returns what it returns with the one-element sequence that holds the first
   element of values. *)
C13_FirstValueOnly ==
    ContainsOnTextList
    => LET f == TaggedFilters(call.filters)[1][2]
           first == [f EXCEPT !.values = Some(<< Head(f.values.v) >>)]
       IN result = EntriesResult(call.collection_id,
                                 Some(Bucket(<< << "list", first >> >>)),
                                 call.order_by).result

(* the case of C13: values of two elements, the second of which is in no
   stored list, and a result that is not empty *)
C13_Witness ==
    /\ ContainsOnTextList
    /\ LET f == TaggedFilters(call.filters)[1][2]
       IN /\ Len(f.values.v) = 2
          /\ \A i \in DOMAIN entry_text_list_values :
                ~entry_text_list_values[i].value.null
                => f.values.v[2] \notin Range(entry_text_list_values[i].value.v)
    /\ result.ok
    /\ result.v # << >>

(* the list_entries call is the one list filter Contains on a field of the
   collection that has the data type *)
ContainsOnListOf(data_type) ==
    /\ Done("list_entries")
    /\ Len(TaggedFilters(call.filters)) = 1
    /\ TaggedFilters(call.filters)[1][1] = "list"
    /\ TaggedFilters(call.filters)[1][2].comparison = "Contains"
    /\ HasFieldNamed(FieldsOf(call.collection_id),
                     TaggedFilters(call.filters)[1][2].field_name)
    /\ FieldNamed(FieldsOf(call.collection_id),
                  TaggedFilters(call.filters)[1][2].field_name).data_type = data_type

(* C14 as stated: a list filter Contains on a NumberList field compiles and
   list_entries does not fail with an error. *)
C14_NumberListContainsCompiles ==
    ContainsOnListOf("NumberList")
    => /\ result.ok
       /\ issued = << "fields", "entries" >>

(* C14 amended: a list filter Contains on a NumberList field fails at
   compilation with UnsupportedComparison, whatever values are supplied, and
   the entries query is not issued; Contains compiles only on a TextList
   field. *)
C14_NumberListContainsUnsupported ==
    /\ ContainsOnListOf("NumberList")
       => /\ result = Err("UnsupportedComparison",
                          TaggedFilters(call.filters)[1][2].field_name)
          /\ issued = << "fields" >>
    /\ ContainsOnListOf("TextList")
       => /\ result.ok
          /\ issued = << "fields", "entries" >>

(* the case of C14: Contains with a value on the NumberList field, on a
   store where an entry of the collection has a row for the field *)
C14_Witness ==
    /\ ContainsOnListOf("NumberList")
    /\ TaggedFilters(call.filters)[1][2].values.some
    /\ TaggedFilters(call.filters)[1][2].values.v # << >>
    /\ \E e \in EntriesOfCollection(call.collection_id) :
          HasStoredRow(e, FieldNamed(FieldsOf(call.collection_id),
                                     TaggedFilters(call.filters)[1][2].field_name))
    /\ ~result.ok
    /\ result.kind = "UnsupportedComparison"

(* the filter t is on a field of the catalog fs whose data type its kind
   accepts *)
PassesValidation(fs, t) ==
    /\ HasFieldNamed(fs, t[2].field_name)
    /\ FieldNamed(fs, t[2].field_name).data_type \in AllowedTypes(t[1])

(* the comparisons that the spec lists as unsupported, with the operand they
   are listed with *)
ListedUnsupported(t) ==
    \/ t[1] = "list" /\ t[2].comparison \in { "ContainsAll", "ContainsAny" }
    \/ /\ t[1] = "object"
       /\ t[2].comparison \in { "HasProperty", "PropertyEquals", "PropertyContains" }
       /\ t[2].property_path.some

(* C15: a list filter ContainsAll or ContainsAny, and an object filter
   HasProperty, PropertyEquals or PropertyContains with a property_path, on a
   field that passes validation, makes list_entries fail without the entries
   query being issued, with UnsupportedComparison when no earlier filter
   fails; a list or object filter IsEmpty or IsNotEmpty alone is answered,
   and with other filters that compile the request never fails with
   UnsupportedComparison. *)
C15_UnsupportedComparison ==
    Done("list_entries")
    => LET fs == FieldsOf(call.collection_id)
           ts == TaggedFilters(call.filters)
           fails(t) == ~ApplyFilter(t[1], BaseQuery(call.collection_id), fs, t[2]).ok
       IN \A j \in DOMAIN ts :
            /\ (PassesValidation(fs, ts[j]) /\ ListedUnsupported(ts[j]))
               => /\ ~result.ok
                  /\ issued = << "fields" >>
                  /\ (\A k \in 1..(j - 1) : ~fails(ts[k]))
                     => result = Err("UnsupportedComparison", ts[j][2].field_name)
            /\ (/\ PassesValidation(fs, ts[j])
                /\ ts[j][1] \in { "list", "object" }
                /\ ts[j][2].comparison \in { "IsEmpty", "IsNotEmpty" })
               => /\ Len(ts) = 1 => result.ok
                  /\ (\A k \in DOMAIN ts : k # j => ~fails(ts[k]))
                     => (result.ok \/ result.kind # "UnsupportedComparison")

(* the case of C15: PropertyContains with a property_path on the Object
   field, alone *)
C15_Witness ==
    /\ Done("list_entries")
    /\ LET ts == TaggedFilters(call.filters)
       IN /\ Len(ts) = 1
          /\ ts[1][1] = "object"
          /\ ts[1][2].field_name = "meta"
          /\ ts[1][2].comparison = "PropertyContains"
          /\ ts[1][2].property_path.some
    /\ result = Err("UnsupportedComparison", "meta")
    /\ issued = << "fields" >>

(* a relation filter that takes a target and has none *)
LacksTarget(t) ==
    /\ t[1] = "relation"
    /\ t[2].comparison \in { "ConnectedTo", "NotConnectedTo" }
    /\ ~t[2].target_entry_id.some

(* an object filter with one of the comparisons and without a property_path *)
LacksPath(t, comparisons) ==
    /\ t[1] = "object"
    /\ t[2].comparison \in comparisons
    /\ ~t[2].property_path.some

(* C16 as stated: a relation filter ConnectedTo or NotConnectedTo without a
   target_entry_id, and an object filter HasProperty, PropertyEquals or
   PropertyContains without a property_path, fails with
   MissingRequiredOperand (on a field that passes validation, when no earlier
   filter fails). *)
C16_MissingRequiredOperand ==
    Done("list_entries")
    => LET fs == FieldsOf(call.collection_id)
           ts == TaggedFilters(call.filters)
           fails(t) == ~ApplyFilter(t[1], BaseQuery(call.collection_id), fs, t[2]).ok
       IN \A j \in DOMAIN ts :
            (/\ PassesValidation(fs, ts[j])
             /\ \A k \in 1..(j - 1) : ~fails(ts[k])
             /\ \/ LacksTarget(ts[j])
                \/ LacksPath(ts[j], { "HasProperty", "PropertyEquals",
                                      "PropertyContains" }))
            => result = Err("MissingRequiredOperand", ts[j][2].field_name)

(* C16 amended: a relation filter ConnectedTo or NotConnectedTo without a
   target_entry_id, and an object filter HasProperty without a
   property_path, fails with MissingRequiredOperand; an object filter
   PropertyEquals or PropertyContains without a property_path fails with
   UnsupportedComparison, as it does with one. *)
C16_MissingOperandWhereRead ==
    Done("list_entries")
    => LET fs == FieldsOf(call.collection_id)
           ts == TaggedFilters(call.filters)
           fails(t) == ~ApplyFilter(t[1], BaseQuery(call.collection_id), fs, t[2]).ok
       IN \A j \in DOMAIN ts :
            (/\ PassesValidation(fs, ts[j])
             /\ \A k \in 1..(j - 1) : ~fails(ts[k]))
            => /\ (LacksTarget(ts[j]) \/ LacksPath(ts[j], { "HasProperty" }))
                  => /\ result = Err("MissingRequiredOperand", ts[j][2].field_name)
                     /\ issued = << "fields" >>
               /\ LacksPath(ts[j], { "PropertyEquals", "PropertyContains" })
                  => /\ result = Err("UnsupportedComparison", ts[j][2].field_name)
                     /\ issued = << "fields" >>

(* the case of C16: PropertyEquals without a property_path on the Object
   field, alone *)
C16_Witness ==
    /\ Done("list_entries")
    /\ LET ts == TaggedFilters(call.filters)
       IN /\ Len(ts) = 1
          /\ LacksPath(ts[1], { "PropertyEquals" })
          /\ ts[1][2].field_name = "meta"
    /\ result = Err("UnsupportedComparison", "meta")

(* the other case of C16: ConnectedTo without a target_entry_id on the
   Relation field, alone *)
C16_WitnessMissing ==
    /\ Done("list_entries")
    /\ LET ts == TaggedFilters(call.filters)
       IN /\ Len(ts) = 1
          /\ LacksTarget(ts[1])
          /\ ts[1][2].comparison = "ConnectedTo"
          /\ ts[1][2].field_name = "author"
    /\ result = Err("MissingRequiredOperand", "author")

(* C17: list_entries with the one list filter Contains on a TextList field,
   whose values operand is absent or empty, fails with an error: it does not
   answer with a query that only requires a value row for the field. *)
C17_NoSilentFallback ==
    (/\ ContainsOnListOf("TextList")
     /\ \/ ~TaggedFilters(call.filters)[1][2].values.some
        \/ TaggedFilters(call.filters)[1][2].values.v = << >>)
    => ~result.ok

(* C18: list_entries with the one text filter Eq on a TypstText field is
   answered, and returns every entry of the collection whose row for the
   field in the TypstText value table, the one materialize reads, holds the
   literal. *)
C18_TypstTextFiltered ==
    (/\ Done("list_entries")
     /\ Len(TaggedFilters(call.filters)) = 1
     /\ TaggedFilters(call.filters)[1][1] = "text"
     /\ TaggedFilters(call.filters)[1][2].comparison = "Eq"
     /\ HasFieldNamed(FieldsOf(call.collection_id),
                      TaggedFilters(call.filters)[1][2].field_name))
    => LET f == TaggedFilters(call.filters)[1][2]
           field == FieldNamed(FieldsOf(call.collection_id), f.field_name)
       IN field.data_type = "TypstText"
          => /\ result.ok
             /\ \A e \in EntriesOfCollection(call.collection_id) :
                   LET v == from_data_type("TypstText", e, field.id)
                   IN (v.some /\ v.v.raw = f.value) => e \in ResultIds

(* C19: get_entry_by_name returns an entry of the collection whose name is
   the name asked for, letter for letter, when the collection has one, and
   fails with EntryNotFound when it has none, whatever the entries of the
   other collections are named. *)
C19_EntryByName ==
    Done("get_entry_by_name")
    => IF \E e \in EntriesOfCollection(call.collection_id) :
             entries[e].name = call.name
       THEN /\ result.ok
            /\ result.v.id \in EntriesOfCollection(call.collection_id)
            /\ result.v = entries[result.v.id]
            /\ result.v.collection_id = call.collection_id
            /\ result.v.name = call.name
       ELSE result = Err("EntryNotFound", call.name)

(* the case of C19: the name of an entry of another collection, which no
   entry of the collection asked has *)
C19_Witness ==
    /\ Done("get_entry_by_name")
    /\ \E e \in EntryIds :
          /\ entries[e].name = call.name
          /\ entries[e].collection_id # call.collection_id
    /\ EntriesOfCollection(call.collection_id) # { }
    /\ result = Err("EntryNotFound", call.name)

(* the other case of C19: a name that an entry of the collection and an
   entry of another collection share *)
C19_WitnessFound ==
    /\ Done("get_entry_by_name")
    /\ \E e \in EntryIds :
          /\ entries[e].name = call.name
          /\ entries[e].collection_id # call.collection_id
          /\ e < result.v.id
    /\ result.ok

(* what the request c returns when it is answered alone *)
AloneResult(c) ==
    CASE c.op = "list_entries" ->
           EntriesResult(c.collection_id, c.filters, c.order_by).result
      [] c.op = "get_entry_by_name" -> EntryResult(c.collection_id, c.name).result
      [] c.op = "materialize" -> ValuesResult(c.entry).result
      [] c.op = "paginate_collections" ->
           CollectionsResult(c.collection_name, c.page, c.page_size,
                             c.created_after, c.created_before).result

AnsweredAsAlone ==
    \A s \in Tasks : tasks[s].pc = "done" => tasks[s].result = AloneResult(tasks[s].call)

(* C20: no step of a list_entries, get_entry_by_name, materialize or
   paginate_collections request changes a table of the store, and every
   request answered while others are in flight, interleaved with them at the
   storage round trips, returns what it returns when it is answered alone. *)
C20_Isolation ==
    /\ [][UNCHANGED tables]_vars
    /\ []AnsweredAsAlone

(* the case of C20: a materialize request is answered with several values
   while another request, begun before it ended, is between two of its round
   trips *)
C20_Witness ==
    \E s, t \in Tasks :
       /\ s # t
       /\ tasks[s].pc = "done"
       /\ tasks[s].call.op = "materialize"
       /\ Len(tasks[s].result.v) >= 2
       /\ tasks[t].pc \in { "entries", "value", "count" }

(* a request whose round trip failed has returned the store's error and no
   value; the failed round trip is the last it issued; list_entries whose
   catalog load failed issued nothing else, and materialize issued no more
   value fetches than the collection has fields *)
FailedReturnsError ==
    \A s \in Tasks :
       tasks[s].fault.some
       => LET t == tasks[s]
          IN /\ t.pc = "done"
             /\ t.result = Err("StoreError", "connection lost")
             /\ t.issued # << >>
             /\ t.issued[Len(t.issued)] = t.fault.v
             /\ (t.call.op = "list_entries" /\ t.fault.v = "fields")
                => t.issued = << "fields" >>
             /\ t.call.op = "list_entries" => Len(t.issued) <= 2
             /\ t.call.op = "materialize"
                => Len(t.issued) <= 1 + Len(FieldsOf(t.call.entry.collection_id))

(* the failed round trip is added to the issued ones once, when it fails, and
   the request issues nothing after it *)
FailedOnceNoRetry ==
    \A s \in Tasks :
       /\ tasks[s].fault.some => (tasks'[s] = tasks[s] \/ tasks'[s] = IdleTask)
       /\ (~tasks[s].fault.some /\ tasks'[s].fault.some)
          => tasks'[s].issued = Append(tasks[s].issued, tasks'[s].fault.v)

(* C21: when a storage round trip of a request fails, the request returns
   that storage error and no partial result, the failed round trip is issued
   once, and the request issues no round trip after it. *)
C21_StorageErrorPropagates ==
    /\ []FailedReturnsError
    /\ [][FailedOnceNoRetry]_vars

(* the case of C21: the value fetch of a later field fails during
   materialize, after values of earlier fields were collected *)
C21_Witness ==
    \E s \in Tasks :
       /\ tasks[s].call.op = "materialize"
       /\ tasks[s].fault = Some("value")
       /\ Len(tasks[s].issued) >= 3
       /\ frames[s].values # << >>
       /\ ~tasks[s].result.ok

(* the other case of C21: the catalog load of list_entries fails *)
C21_WitnessCatalog ==
    \E s \in Tasks :
       /\ tasks[s].call.op = "list_entries"
       /\ tasks[s].fault = Some("fields")
       /\ tasks[s].issued = << "fields" >>
       /\ ~tasks[s].result.ok

(* the error of the filter t compiled alone *)
ErrorOf(c, t) == ApplyFilter(t[1], BaseQuery(c), FieldsOf(c), t[2])

(* C22: when filters of the set fail, list_entries returns the error of the
   first of them in the order text, number, boolean, date-time, list,
   relation, object and, within a kind, in the order of the sequence;
   whether a later filter is valid or not changes nothing. *)
C22_FirstFailureWins ==
    Done("list_entries")
    => LET ts == TaggedFilters(call.filters)
           failing == { j \in DOMAIN ts : ~ErrorOf(call.collection_id, ts[j]).ok }
       IN failing # { }
          => LET first == CHOOSE j \in failing : \A k \in failing : j <= k
             IN /\ result = ErrorOf(call.collection_id, ts[first])
                /\ issued = << "fields" >>

(* the case of C22: two filters of one kind that fail with different
   errors; the error is that of the first *)
C22_Witness ==
    /\ Done("list_entries")
    /\ LET ts == TaggedFilters(call.filters)
       IN /\ Len(ts) = 2
          /\ ts[1][1] = ts[2][1]
          /\ ~ErrorOf(call.collection_id, ts[1]).ok
          /\ ~ErrorOf(call.collection_id, ts[2]).ok
          /\ ErrorOf(call.collection_id, ts[1]) # ErrorOf(call.collection_id, ts[2])
          /\ result = ErrorOf(call.collection_id, ts[1])

(* the other case of C22: two failing filters of different kinds, supplied
   with different errors; the error is that of the earlier kind *)
C22_WitnessKinds ==
    /\ Done("list_entries")
    /\ LET ts == TaggedFilters(call.filters)
       IN /\ Len(ts) = 2
          /\ ts[1][1] = "number"
          /\ ts[2][1] = "relation"
          /\ ~ErrorOf(call.collection_id, ts[2]).ok
          /\ result = ErrorOf(call.collection_id, ts[1])
          /\ result # ErrorOf(call.collection_id, ts[2])
    /\ ~result.ok

(* the filter t has a comparison that is not supported, or lacks the operand
   its comparison takes, or has a target that is not the text of a UUID *)
Troubled(t) ==
    \/ t[1] = "list" /\ t[2].comparison \in { "ContainsAll", "ContainsAny" }
    \/ t[1] = "object" /\ t[2].comparison \in { "HasProperty", "PropertyEquals",
                                                "PropertyContains" }
    \/ /\ t[1] = "relation"
       /\ t[2].comparison \in { "ConnectedTo", "NotConnectedTo" }
       /\ \/ ~t[2].target_entry_id.some
          \/ t[2].target_entry_id.v \notin
               (Range(UuidText) \cup Range(UuidUpper) \cup { "u9" })

(* C23: a filter on a field name that the collection does not have fails
   with FieldNotFound, and a filter on a field of a data type outside its
   kind's set with FieldTypeMismatch, whatever its comparison and operands
   are: also when the comparison is unsupported or the operand is missing or
   malformed (for the only filter, or the first one that fails). *)
C23_ValidationBeforeOperands ==
    Done("list_entries")
    => LET fs == FieldsOf(call.collection_id)
           ts == TaggedFilters(call.filters)
       IN \A j \in DOMAIN ts :
            (\A k \in 1..(j - 1) : ErrorOf(call.collection_id, ts[k]).ok)
            => IF ~HasFieldNamed(fs, ts[j][2].field_name)
               THEN result = Err("FieldNotFound", ts[j][2].field_name)
               ELSE FieldNamed(fs, ts[j][2].field_name).data_type
                       \notin AllowedTypes(ts[j][1])
                    => result = Err("FieldTypeMismatch", ts[j][2].field_name)

(* the case of C23: ConnectedTo with a target that is not a UUID, on a field
   of another data type *)
C23_Witness ==
    /\ Done("list_entries")
    /\ LET ts == TaggedFilters(call.filters)
       IN /\ Len(ts) = 1
          /\ ts[1][1] = "relation"
          /\ Troubled(ts[1])
          /\ ts[1][2].target_entry_id.some
          /\ ts[1][2].field_name = "title"
    /\ result = Err("FieldTypeMismatch", "title")

(* the other case of C23: an unsupported comparison, or a missing operand,
   on a field of no collection *)
C23_WitnessNotFound ==
    /\ Done("list_entries")
    /\ LET ts == TaggedFilters(call.filters)
       IN /\ Len(ts) = 1
          /\ ts[1][1] \in { "list", "object" }
          /\ Troubled(ts[1])
          /\ ts[1][2].field_name = "nope"
    /\ result = Err("FieldNotFound", "nope")

(* the position of the field in the catalog fs *)
PositionIn(fs, field) == CHOOSE i \in DOMAIN fs : fs[i] = field

(* C24: the pairs that materialize returns are on fields of the entry's
   collection, in catalog order, no field twice; the value of a Relation
   field is one edge row of the store for that field, whose from_entry_id is
   the entry materialized, however many edges the entry has. *)
C24_OnePairPerField ==
    (Done("materialize") /\ result.ok)
    => LET fs == FieldsOf(call.entry.collection_id)
       IN /\ \A i \in DOMAIN result.v : result.v[i].field \in Range(fs)
          /\ \A i, j \in DOMAIN result.v :
                i < j => PositionIn(fs, result.v[i].field)
                           < PositionIn(fs, result.v[j].field)
          /\ \A i \in DOMAIN result.v :
                result.v[i].value.tag = "Relation"
                => /\ result.v[i].value.from_entry_id = call.entry.id
                   /\ \E r \in DOMAIN entry_relation_values :
                         entry_relation_values[r] =
                            [from_entry_id |-> call.entry.id,
                             field_id |-> result.v[i].field.id,
                             to_entry_id |-> result.v[i].value.to_entry_id]

(* the case of C24: an entry with several edges for its Relation field, and
   values for other fields too *)
C24_Witness ==
    /\ Done("materialize")
    /\ result.ok
    /\ Len(result.v) >= 3
    /\ \E i \in DOMAIN result.v :
          /\ result.v[i].value.tag = "Relation"
          /\ Cardinality(EdgesOf(call.entry.id, result.v[i].field, EntryIds)) >= 2
          /\ \A j \in DOMAIN result.v :
                result.v[j].value.tag = "Relation" => j = i

(* the sequence s without its element at position j *)
Without(s, j) == SubSeq(s, 1, j - 1) \o SubSeq(s, j + 1, Len(s))

(* the entries that a list_entries result returns: none when it is an error *)
Returned(r) == IF r.ok THEN r.v ELSE << >>

(* C25: for a filter set that compiles, the entries list_entries returns are
   entries of the collection, each of them in the unfiltered result, none
   twice; they are among the entries returned for the same set without any
   one of its filters; and a filter set whose sequences are all absent or
   empty returns what no filters returns. *)
C25_FilteringNarrows ==
    (/\ Done("list_entries")
     /\ call.filters.some
     /\ apply_typed_filters(BaseQuery(call.collection_id),
                            FieldsOf(call.collection_id), call.filters.v).ok)
    => LET c == call.collection_id
           ts == TaggedFilters(call.filters)
           returned == Returned(result)
           unfiltered == EntriesResult(c, None, call.order_by).result
       IN /\ unfiltered.ok
          /\ \A i \in DOMAIN returned :
                /\ returned[i].collection_id = c
                /\ returned[i] \in Range(unfiltered.v)
                /\ \A j \in DOMAIN returned : returned[j].id = returned[i].id => j = i
          /\ \A j \in DOMAIN ts :
                Range(returned) \subseteq
                   Range(Returned(EntriesResult(c, Some(Bucket(Without(ts, j))),
                                                call.order_by).result))
          /\ ts = << >> => result = unfiltered

(* the case of C25: one filter of each of the seven kinds, answered with
   some entries of the collection and not all of them *)
C25_Witness ==
    /\ Done("list_entries")
    /\ Len(TaggedFilters(call.filters)) = Len(Kinds)
    /\ result.ok
    /\ result.v # << >>
    /\ Len(result.v) < Cardinality(EntriesOfCollection(call.collection_id))

(* the other case of C25: the seven sequences present and empty *)
C25_WitnessEmpty ==
    /\ Done("list_entries")
    /\ call.filters = Some(EmptyFilters)
    /\ result.ok
    /\ Len(result.v) >= 2

====
